---- MODULE Spec2Model ----
(***************************************************************************)
(* Model of the repository-automation bot (thenets/repo-automation-test):  *)
(* the YAML field parser of src/utils/config.js, the release/backport and  *)
(* feature-branch rules of label-automation.js (src/unnamed/part_000) and  *)
(* the gateway of src/utils/github-client.js.                              *)
(*                                                                         *)
(* Text is modelled as a sequence of one-character strings, so that the    *)
(* regular expressions, trimming and quote handling of the parser are      *)
(* computed character by character, as the JavaScript computes them.       *)
(***************************************************************************)
EXTENDS Integers, Sequences, FiniteSets, TLC

VARIABLES
  labels,     \* GitHub: set of label names on the pull request
  comments,   \* GitHub: sequence of issue comments on the pull request
  nextId,     \* GitHub: id given to the next created comment
  checkRuns,  \* GitHub: check runs created by the running invocation
  pr,         \* GitHub: the pull request snapshot (body, draft)
  opts,       \* RunOptions of the workflow (allowlists, toggles, dry run)
  inv,        \* locals of the running LabelAutomation.execute invocation
  ninv,       \* number of invocations started so far
  ptext,      \* parser harness: the YAML fragment under test
  pout,       \* parser harness: last result of parseYamlValue
  top,        \* locals of the running RepositoryAutomation.execute
  issueLabels,\* labels of the issue an issues event is about
  sd,         \* the open pull requests and the locals of StaleDetection.execute
  peer        \* locals of an invocation that overlaps the running one

vars == <<labels, comments, nextId, checkRuns, pr, opts, inv, ninv, ptext, pout,
          top, issueLabels, sd, peer>>

(***************************************************************************)
(* Characters and text helpers                                             *)
(***************************************************************************)
NL == "\n"
SP == " "
DQ == "\""
SQ == "'"
\* the backquote character, written as a token of its own because the
\* lexer of TLA+ accepts no backquote inside a string
BQ == "BQ"

\* JavaScript whitespace class restricted to the alphabet of the model
IsWs(c) == c \in {" ", "\t", "\n"}

\* JavaScript line terminator (the dot does not match it, anchors do)
IsLineTerminator(c) == c = "\n"

Last(s) == s[Len(s)]
Front(s) == SubSeq(s, 1, Len(s) - 1)

\* s.startsWith(p) at 1-based position i
HasPrefixAt(s, i, p) ==
  /\ i + Len(p) - 1 <= Len(s)
  /\ \A k \in 1..Len(p) : s[i + k - 1] = p[k]

StartsWith(s, p) == HasPrefixAt(s, 1, p)

\* s.includes(p)
Includes(s, p) == \E i \in 1..(Len(s) + 1) : HasPrefixAt(s, i, p)

Min(S) == CHOOSE x \in S : \A y \in S : x <= y
Max(S) == CHOOSE x \in S : \A y \in S : x >= y

\* String.prototype.trim
Trim(s) ==
  LET keep == {i \in 1..Len(s) : ~IsWs(s[i])}
  IN  IF keep = {} THEN <<>> ELSE SubSeq(s, Min(keep), Max(keep))

\* String.prototype.toLowerCase on the letters of the alphabet of the model
LowerChar(c) ==
  CASE c = "T" -> "t" [] c = "R" -> "r" [] c = "U" -> "u" [] c = "E" -> "e"
    [] c = "F" -> "f" [] c = "A" -> "a" [] c = "L" -> "l" [] c = "S" -> "s"
    [] OTHER -> c

ToLowerCase(s) == [i \in 1..Len(s) |-> LowerChar(s[i])]

\* Array.prototype.join of texts
RECURSIVE Join(_, _)
Join(ss, sep) ==
  IF Len(ss) = 0 THEN <<>>
  ELSE IF Len(ss) = 1 THEN ss[1]
  ELSE ss[1] \o sep \o Join(Tail(ss), sep)

Range(s) == {s[i] : i \in 1..Len(s)}

(***************************************************************************)
(* Literal texts of the program                                            *)
(***************************************************************************)
T_release == <<"r","e","l","e","a","s","e">>
T_backport == <<"b","a","c","k","p","o","r","t">>
T_needs_feature_branch ==
  <<"n","e","e","d","s","_","f","e","a","t","u","r","e","_","b","r","a","n","c","h">>
T_true == <<"t","r","u","e">>
T_false == <<"f","a","l","s","e">>
T_null == <<"n","u","l","l">>
T_fence == <<BQ, BQ, BQ>>
T_yamlFence == T_fence \o <<"y","a","m","l">>
T_releaseDash == T_release \o <<"-">>
T_backportDash == T_backport \o <<"-">>
T_featureBranch ==
  <<"f","e","a","t","u","r","e","-","b","r","a","n","c","h">>

Fields == {T_release, T_backport, T_needs_feature_branch}

(***************************************************************************)
(* YamlFieldValue: what parseYamlValue returns                             *)
(***************************************************************************)
Null == [kind |-> "null", v |-> <<>>, vs |-> <<>>]
Scalar(s) == [kind |-> "scalar", v |-> s, vs |-> <<>>]
ArrayOf(ss) == [kind |-> "array", v |-> <<>>, vs |-> ss]

\* JavaScript truthiness of a parse result: null is falsy, a non-empty
\* string and every array (also the empty one) are truthy
Truthy(x) == x.kind # "null"
IsArray(x) == x.kind = "array"

(***************************************************************************)
(* ConfigManager.parseYamlFromText: the first fenced yaml block            *)
(***************************************************************************)
\* index of the first non-blank character at or after i (Len+1 if none)
SkipWs(s, i) ==
  LET nonws == {k \in i..Len(s) : ~IsWs(s[k])}
  IN  IF nonws = {} THEN Len(s) + 1 ELSE Min(nonws)

\* the closing part of the block pattern (newline, blanks, fence) matches at e
ClosesAt(s, e) ==
  /\ e <= Len(s)
  /\ s[e] = NL
  /\ HasPrefixAt(s, SkipWs(s, e + 1), T_fence)

\* yamlBlockRegex tried at start position i: the set of pairs (nl, e) where
\* nl is the newline that ends the opening fence and e the newline that
\* opens the closing fence
BlockMatchesAt(s, i) ==
  IF ~HasPrefixAt(s, i, T_yamlFence) THEN {}
  ELSE LET p == i + Len(T_yamlFence)
           q == SkipWs(s, p)
       IN  {m \in ((p..(q - 1)) \X (1..Len(s))) :
              /\ s[m[1]] = NL
              /\ m[2] > m[1]
              /\ ClosesAt(s, m[2])}

\* the capture of the leftmost match: \s* is greedy (the last newline of the
\* blank run is tried first), the group is lazy (the nearest closing fence)
parseYamlFromText(text) ==
  IF Len(text) = 0 THEN Null
  ELSE LET starts == {i \in 1..Len(text) : BlockMatchesAt(text, i) # {}}
       IN  IF starts = {} THEN Null
           ELSE LET ms == BlockMatchesAt(text, Min(starts))
                    nl == Max({m[1] : m \in ms})
                    e  == Min({m[2] : m \in {x \in ms : x[1] = nl}})
                    cap == SubSeq(text, nl + 1, e - 1)
                IN  IF cap = <<>> THEN Null ELSE Scalar(cap)

(***************************************************************************)
(* ConfigManager.parseYamlArrayValue                                       *)
(***************************************************************************)
\* the quote normalisation of arrayString: each pair of single quotes, left
\* to right, becomes a pair of double quotes
RECURSIVE NormalizeQuotes(_)
NormalizeQuotes(s) ==
  IF s = <<>> THEN <<>>
  ELSE IF Head(s) # SQ THEN <<Head(s)>> \o NormalizeQuotes(Tail(s))
  ELSE LET closing == {j \in 2..Len(s) : s[j] = SQ}
       IN  IF closing = {} THEN s
           ELSE LET j == Min(closing)
                IN  <<DQ>> \o SubSeq(s, 2, j - 1) \o <<DQ>>
                      \o NormalizeQuotes(SubSeq(s, j + 1, Len(s)))

IsDigit(c) == c \in {"0","1","2","3","4","5","6","7","8","9"}

\* String of the number a JSON number token (int or int.frac) denotes:
\* trailing zeros of the fraction are dropped
RECURSIVE DropTrailingZeros(_)
DropTrailingZeros(s) ==
  IF s # <<>> /\ Last(s) = "0" THEN DropTrailingZeros(Front(s)) ELSE s

NumberToString(tok) ==
  LET dots == {k \in 1..Len(tok) : tok[k] = "."}
  IN  IF dots = {} THEN tok
      ELSE LET d == Min(dots)
               frac == DropTrailingZeros(SubSeq(tok, d + 1, Len(tok)))
           IN  IF frac = <<>> THEN SubSeq(tok, 1, d - 1)
               ELSE SubSeq(tok, 1, d - 1) \o <<".">> \o frac

\* a JSON number without sign and exponent
IsJsonNumber(tok) ==
  LET dots == {k \in 1..Len(tok) : tok[k] = "."}
      int  == IF dots = {} THEN tok ELSE SubSeq(tok, 1, Min(dots) - 1)
      frac == IF dots = {} THEN <<>> ELSE SubSeq(tok, Min(dots) + 1, Len(tok))
  IN  /\ Cardinality(dots) <= 1
      /\ int # <<>>
      /\ \A k \in 1..Len(int) : IsDigit(int[k])
      /\ (Len(int) > 1 => int[1] # "0")
      /\ (dots # {} => frac # <<>>)
      /\ \A k \in 1..Len(frac) : IsDigit(frac[k])

\* one JSON value at position i: a string without escapes, a number or a
\* literal; [ok, val, next] where val is String(value)
JsonValueAt(s, i) ==
  LET fail == [ok |-> FALSE, val |-> <<>>, next |-> i]
  IN  IF i > Len(s) THEN fail
      ELSE IF s[i] = DQ THEN
        LET closing == {j \in (i + 1)..Len(s) : s[j] = DQ}
        IN  IF closing = {} THEN fail
            ELSE [ok |-> TRUE, val |-> SubSeq(s, i + 1, Min(closing) - 1),
                  next |-> Min(closing) + 1]
      ELSE
        LET stops == {j \in i..Len(s) : IsWs(s[j]) \/ s[j] \in {",", "]"}}
            e   == IF stops = {} THEN Len(s) ELSE Min(stops) - 1
            tok == SubSeq(s, i, e)
        IN  IF IsJsonNumber(tok)
              THEN [ok |-> TRUE, val |-> NumberToString(tok), next |-> e + 1]
            ELSE IF tok \in {T_true, T_false, T_null}
              THEN [ok |-> TRUE, val |-> tok, next |-> e + 1]
            ELSE fail

\* the elements after the opening bracket or a comma at position i, up to
\* the closing bracket that must end the text; acc holds the elements read
RECURSIVE JsonElements(_, _, _)
JsonElements(s, i, acc) ==
  LET v == JsonValueAt(s, SkipWs(s, i))
      j == SkipWs(s, v.next)
  IN  IF ~v.ok \/ j > Len(s) THEN [ok |-> FALSE, vals |-> <<>>]
      ELSE IF s[j] = "," THEN JsonElements(s, j + 1, Append(acc, v.val))
      ELSE IF s[j] = "]" /\ SkipWs(s, j + 1) > Len(s)
        THEN [ok |-> TRUE, vals |-> Append(acc, v.val)]
      ELSE [ok |-> FALSE, vals |-> <<>>]

\* JSON.parse of an array text: arrays of strings, numbers and literals
\* (nested arrays and objects are outside the inputs of the model)
JsonParseArray(s) ==
  LET i == SkipWs(s, 1)
      j == SkipWs(s, i + 1)
  IN  IF i > Len(s) \/ s[i] # "[" THEN [ok |-> FALSE, vals |-> <<>>]
      ELSE IF j <= Len(s) /\ s[j] = "]" /\ SkipWs(s, j + 1) > Len(s)
        THEN [ok |-> TRUE, vals |-> <<>>]
      ELSE JsonElements(s, i + 1, <<>>)

NonEmpty(s) == Len(s) > 0

parseYamlArrayValue(arrayString) ==
  LET parsed == JsonParseArray(NormalizeQuotes(arrayString))
  IN  IF parsed.ok
        THEN ArrayOf(SelectSeq([k \in 1..Len(parsed.vals) |-> Trim(parsed.vals[k])],
                                 NonEmpty))
        ELSE Null

(***************************************************************************)
(* ConfigManager.parseYamlValue                                            *)
(***************************************************************************)
\* positions k at which the capture group can start once the key matched at
\* line start i and the blank run consumed the characters up to k: the
\* blank run also consumes line terminators
CaptureStarts(text, i, key) ==
  LET p == i + Len(key)
      q == SkipWs(text, p)
  IN  {k \in p..q : k <= Len(text) /\ ~IsLineTerminator(text[k])}

\* yamlContent.match(regex): group 1 of the leftmost match; the blank run is
\* greedy and the group runs to the end of its line
FieldMatch(text, field) ==
  LET key == field \o <<":">>
      starts == {i \in 1..Len(text) :
                   /\ (i = 1 \/ IsLineTerminator(text[i - 1]))
                   /\ HasPrefixAt(text, i, key)
                   /\ CaptureStarts(text, i, key) # {}}
  IN  IF starts = {} THEN [found |-> FALSE, group |-> <<>>]
      ELSE LET k == Max(CaptureStarts(text, Min(starts), key))
               lts == {e \in k..Len(text) : IsLineTerminator(text[e])}
               lineEnd == IF lts = {} THEN Len(text) ELSE Min(lts) - 1
           IN  [found |-> TRUE, group |-> SubSeq(text, k, lineEnd)]

\* removal of a trailing comment (from the first hash to the end)
StripComment(s) ==
  LET hashes == {k \in 1..Len(s) : s[k] = "#"}
  IN  IF hashes = {} THEN s ELSE SubSeq(s, 1, Min(hashes) - 1)

IsQuote(c) == c \in {DQ, SQ}

\* parseYamlValue without the removal of quotes
StripQuotes_none(s) == s

\* removal of surrounding quotes: a leading quote and a trailing quote are
\* removed independently of each other
StripQuotes(s) ==
  LET a == IF s # <<>> /\ IsQuote(Head(s)) THEN Tail(s) ELSE s
  IN  IF a # <<>> /\ IsQuote(Last(a)) THEN Front(a) ELSE a

parseYamlValue(yamlContent, field) ==
  IF ~Truthy(yamlContent) THEN Null
  ELSE LET match == FieldMatch(yamlContent.v, field)
           rawValue == Trim(StripComment(Trim(match.group)))
       IN  IF ~match.found THEN Null
           ELSE IF rawValue = <<>> THEN Null
           ELSE IF Head(rawValue) = "[" /\ Last(rawValue) = "]"
             THEN parseYamlArrayValue(rawValue)
           ELSE IF StripQuotes(rawValue) = <<>> THEN Null
           ELSE Scalar(StripQuotes(rawValue))

(***************************************************************************)
(* ConfigManager: options, validation and partition                        *)
(***************************************************************************)
getAcceptedReleases(o) == o.acceptedReleases
getAcceptedBackports(o) == o.acceptedBackports
\* a gateway that never runs dry
isDryRun_never(o) == FALSE

isDryRun(o) == o.dryRun

\* Array.prototype.includes
SeqIncludes(s, x) == \E i \in 1..Len(s) : s[i] = x

\* a validation of an array that reports each distinct element once
ValidateAgainst_dedup(accepted, value) ==
  IF IsArray(value)
    THEN [array |-> TRUE, ok |-> FALSE,
          items |-> LET first == SelectSeq([i \in 1..Len(value.vs) |-> i],
                                           LAMBDA i : \A j \in 1..(i - 1) :
                                                        value.vs[j] # value.vs[i])
                    IN  [k \in 1..Len(first) |->
                           [value |-> value.vs[first[k]],
                            valid |-> SeqIncludes(accepted, value.vs[first[k]])]]]
    ELSE [array |-> FALSE, ok |-> SeqIncludes(accepted, value.v), items |-> <<>>]

\* the result of validateReleaseValue / validateBackportValue: a boolean for
\* a scalar (ok), a list of {value, valid} for an array (items)
ValidateAgainst(accepted, value) ==
  IF IsArray(value)
    THEN [array |-> TRUE, ok |-> FALSE,
          items |-> [i \in 1..Len(value.vs) |->
                       [value |-> value.vs[i],
                        valid |-> SeqIncludes(accepted, value.vs[i])]]]
    ELSE [array |-> FALSE, ok |-> SeqIncludes(accepted, value.v), items |-> <<>>]

validateReleaseValue(o, value) == ValidateAgainst(getAcceptedReleases(o), value)
validateBackportValue(o, value) == ValidateAgainst(getAcceptedBackports(o), value)

ItemInvalid(item) == ~item.valid
ItemValid(item) == item.valid
ItemValues(items) == [i \in 1..Len(items) |-> items[i].value]

\* the boolean true as an element of a list of values
BoolTrue == <<"#true">>

\* getInvalidValues that stops at the first invalid item
getInvalidValues_first(validationResult) ==
  IF validationResult.array
    THEN LET all == ItemValues(SelectSeq(validationResult.items, ItemInvalid))
         IN  IF all = <<>> THEN <<>> ELSE <<Head(all)>>
    ELSE <<>>

getInvalidValues(validationResult) ==
  IF validationResult.array
    THEN ItemValues(SelectSeq(validationResult.items, ItemInvalid))
    ELSE <<>>

getValidValues(validationResult) ==
  IF validationResult.array
    THEN ItemValues(SelectSeq(validationResult.items, ItemValid))
    ELSE IF validationResult.ok THEN <<BoolTrue>> ELSE <<>>

(***************************************************************************)
(* LabelAutomation.processReleaseLabel / processBackportLabel              *)
(***************************************************************************)
\* An error message: category and accepted values, the rejected values in
\* the order they are quoted, and whether the plural wording is used
NoError == [category |-> "", plural |-> FALSE, invalid |-> <<>>, accepted |-> <<>>]
IsError(e) == e.category # ""

PrefixAll(prefix, values) == [i \in 1..Len(values) |-> prefix \o values[i]]

\* the outcome of processReleaseLabel once the field is read (releaseValue)
\* and validated (validationResult)
ReleaseLabelResult(o, releaseValue, validationResult, hasExistingLabel) ==
  IF ~Truthy(releaseValue) THEN [labels |-> <<>>, error |-> NoError]
  ELSE IF hasExistingLabel THEN [labels |-> <<>>, error |-> NoError]
  ELSE IF IsArray(releaseValue) THEN
    IF Len(getInvalidValues(validationResult)) > 0
      THEN [labels |-> <<>>,
            error |-> [category |-> "release", plural |-> TRUE,
                       invalid |-> getInvalidValues(validationResult),
                       accepted |-> getAcceptedReleases(o)]]
    ELSE IF Len(getValidValues(validationResult)) > 0
      THEN [labels |-> PrefixAll(T_releaseDash, getValidValues(validationResult)),
            error |-> NoError]
    ELSE [labels |-> <<>>, error |-> NoError]
  ELSE IF validationResult.ok
    THEN [labels |-> <<T_releaseDash \o releaseValue.v>>, error |-> NoError]
  ELSE [labels |-> <<>>,
        error |-> [category |-> "release", plural |-> FALSE,
                   invalid |-> <<releaseValue.v>>,
                   accepted |-> getAcceptedReleases(o)]]

\* processReleaseLabel without the check of hasExistingLabel
ReleaseLabelOf_override(o, releaseValue, hasExistingLabel) ==
  ReleaseLabelResult(o, releaseValue, validateReleaseValue(o, releaseValue), FALSE)

ReleaseLabelOf(o, releaseValue, hasExistingLabel) ==
  ReleaseLabelResult(o, releaseValue, validateReleaseValue(o, releaseValue),
                     hasExistingLabel)

processReleaseLabel(o, yamlContent, hasExistingLabel) ==
  ReleaseLabelOf(o, parseYamlValue(yamlContent, T_release), hasExistingLabel)

\* the outcome of processBackportLabel once the field is read (backportValue)
\* and validated (validationResult)
BackportLabelResult(o, backportValue, validationResult, hasExistingLabel) ==
  IF ~Truthy(backportValue) THEN [labels |-> <<>>, error |-> NoError]
  ELSE IF hasExistingLabel THEN [labels |-> <<>>, error |-> NoError]
  ELSE IF IsArray(backportValue) THEN
    IF Len(getInvalidValues(validationResult)) > 0
      THEN [labels |-> <<>>,
            error |-> [category |-> "backport", plural |-> TRUE,
                       invalid |-> getInvalidValues(validationResult),
                       accepted |-> getAcceptedBackports(o)]]
    ELSE IF Len(getValidValues(validationResult)) > 0
      THEN [labels |-> PrefixAll(T_backportDash, getValidValues(validationResult)),
            error |-> NoError]
    ELSE [labels |-> <<>>, error |-> NoError]
  ELSE IF validationResult.ok
    THEN [labels |-> <<T_backportDash \o backportValue.v>>, error |-> NoError]
  ELSE [labels |-> <<>>,
        error |-> [category |-> "backport", plural |-> FALSE,
                   invalid |-> <<backportValue.v>>,
                   accepted |-> getAcceptedBackports(o)]]

\* processBackportLabel without the check of hasExistingLabel
BackportLabelOf_override(o, backportValue, hasExistingLabel) ==
  BackportLabelResult(o, backportValue, validateBackportValue(o, backportValue), FALSE)

BackportLabelOf(o, backportValue, hasExistingLabel) ==
  BackportLabelResult(o, backportValue, validateBackportValue(o, backportValue),
                      hasExistingLabel)

processBackportLabel(o, yamlContent, hasExistingLabel) ==
  BackportLabelOf(o, parseYamlValue(yamlContent, T_backport), hasExistingLabel)

\* RepositoryAutomation.detectEnabledFeatures: the features handed to execute
detectEnabledFeatures(o) ==
  [releaseLabeling |-> Len(o.acceptedReleases) > 0,
   backportLabeling |-> Len(o.acceptedBackports) > 0,
   featureBranch |-> o.enableFeatureBranch = TRUE]

\* currentLabels.some(label => label.startsWith(prefix))
SomeStartsWith(currentLabels, prefix) ==
  \E l \in currentLabels : StartsWith(l, prefix)

\* the release/backport decision of processReleaseBackportLabeling, from the
\* labels read: the errors and the labels to add, in the order pushed
NoResult == [labels |-> <<>>, error |-> NoError]

\* the errors and the labels to add, in the order pushed: release first
PushResults(releaseResult, backportResult) ==
  [validationErrors |->
     (IF IsError(releaseResult.error) THEN <<releaseResult.error>> ELSE <<>>)
       \o (IF IsError(backportResult.error) THEN <<backportResult.error>> ELSE <<>>),
   labelsToAdd |->
     (IF IsError(releaseResult.error) THEN <<>> ELSE releaseResult.labels)
       \o (IF IsError(backportResult.error) THEN <<>> ELSE backportResult.labels)]

ReleaseBackportDecision(o, features, yamlContent, currentLabels) ==
  PushResults(
    IF features.releaseLabeling
      THEN processReleaseLabel(o, yamlContent,
                               SomeStartsWith(currentLabels, T_releaseDash))
      ELSE NoResult,
    IF features.backportLabeling
      THEN processBackportLabel(o, yamlContent,
                                SomeStartsWith(currentLabels, T_backportDash))
      ELSE NoResult)

(***************************************************************************)
(* Inputs: version values and field lines                                  *)
(***************************************************************************)
V15 == <<"1",".","5">>
V16 == <<"1",".","6">>
V14 == <<"1",".","4">>
V99 == <<"9",".","9">>
V20 == <<"2",".","0">>
V10 == <<"1",".","0">>

Quoted(q, s) == <<q>> \o s \o <<q>>
FieldLine(field, raw) == field \o <<":">> \o raw
JoinLines(ls) == Join(ls, <<NL>>)

\* what may follow the colon of a field line (harness of parseYamlValue)
RawValues ==
  { <<>>,                                             \* nothing
    <<SP, SP>>,                                       \* blanks only
    <<SP, "#", SP, "c">>,                             \* a comment only
    <<SP>> \o V15,                                    \* unquoted scalar
    V15,                                              \* no blank after colon
    <<SP>> \o Quoted(DQ, V15) \o <<SP, "#", "c">>,    \* quoted, then comment
    <<SP>> \o Quoted(SQ, V99),                        \* single-quoted scalar
    <<SP, DQ>>,                                       \* a lone quote
    <<SP>> \o Quoted(DQ, <<"T","R","U","E">>),
    <<SP>> \o Quoted(SQ, T_false),
    <<SP, "T","r","u","e", SP>>,
    <<SP>> \o <<"m","a","y","b","e">>,
    <<SP, "[">> \o Quoted(DQ, V15) \o <<",", SP>> \o Quoted(SQ, V99) \o <<"]">>,
    <<SP, "[">> \o V15 \o <<"0", "]">>,               \* [1.50]
    <<SP, "[">> \o Quoted(DQ, V15),                   \* unclosed array
    <<SP, "[">> \o V15 \o <<SP>> \o V16 \o <<"]">>,   \* missing comma
    <<SP, "[", "]">> }

ParseLines == {FieldLine(f, r) : f \in Fields, r \in RawValues} \cup {<<>>, <<SP>>}

\* YAML fragments of one or two lines
ParseTexts ==
  {l : l \in ParseLines \ {<<>>}}
    \cup {JoinLines(<<l1, l2>>) : l1 \in ParseLines, l2 \in ParseLines \ {<<>>}}

NoParse == [field |-> <<>>, out |-> Null]

(***************************************************************************)
(* Specification SpecParse: parseYamlValue applied to bounded fragments    *)
(***************************************************************************)
Idle == [pc |-> "idle"]

\* no RepositoryAutomation.execute is running
NoRun == [pc |-> "none"]

\* no StaleDetection.execute is running
NoStalePass == [pc |-> "none"]

\* no invocation overlaps the running one
NoPeer == [pc |-> "none"]

InitParse ==
  /\ ptext \in ParseTexts
  /\ pout = NoParse
  /\ labels = {}
  /\ comments = <<>>
  /\ nextId = 1
  /\ checkRuns = <<>>
  /\ pr = [body |-> <<>>, draft |-> FALSE]
  /\ opts = [acceptedReleases |-> <<>>, acceptedBackports |-> <<>>,
             enableFeatureBranch |-> FALSE, dryRun |-> FALSE, staleDays |-> <<>>,
             owner |-> "thenets", repo |-> "repo-automation-test",
             githubToken |-> "token"]
  /\ inv = Idle
  /\ top = NoRun
  /\ issueLabels = {}
  /\ sd = NoStalePass
  /\ ninv = 0
  /\ peer = NoPeer

ParseField(f) ==
  /\ pout = NoParse
  /\ pout' = [field |-> f, out |-> parseYamlValue(Scalar(ptext), f)]
  /\ UNCHANGED <<labels, comments, nextId, checkRuns, pr, opts, inv, ninv, ptext,
                 top, issueLabels, sd, peer>>

NextParse == \E f \in Fields : ParseField(f)

SpecParse == InitParse /\ [][NextParse]_vars

(***************************************************************************)
(* Inputs of the label automation: options, pull-request bodies, labels    *)
(***************************************************************************)
MaxInvocations == 2   \* invocations of the automation in one behaviour
MaxFailures == 1      \* failing gateway calls in one invocation

Options(releases, backports, featureBranch, dry) ==
  [acceptedReleases |-> releases, acceptedBackports |-> backports,
   enableFeatureBranch |-> featureBranch, dryRun |-> dry, staleDays |-> <<>>,
   owner |-> "thenets", repo |-> "repo-automation-test", githubToken |-> "token"]

OptionSets ==
  { Options(<<V15, V16>>, <<V14>>, TRUE, FALSE),   \* every feature enabled
    Options(<<V16>>, <<V14>>, TRUE, FALSE),        \* release 1.5 not accepted
    Options(<<V15, V16>>, <<>>, FALSE, FALSE),     \* release labelling only
    Options(<<>>, <<V14>>, FALSE, FALSE),          \* backport labelling only
    Options(<<>>, <<>>, TRUE, FALSE),              \* feature branch only
    Options(<<V15, V16>>, <<V14>>, TRUE, TRUE),    \* dry run
    Options(<<V16>>, <<V14>>, TRUE, TRUE) }        \* dry run, 1.5 not accepted

Body(lines) ==
  <<"h","i",NL>> \o T_yamlFence \o <<NL>> \o JoinLines(lines) \o <<NL>> \o T_fence

T_maybe == <<"m","a","y","b","e">>

Bodies ==
  { <<"h","i">>,                                              \* no YAML block
    Body(<<FieldLine(T_release, <<SP>> \o V15),
           FieldLine(T_backport, <<SP>> \o V14)>>),
    Body(<<FieldLine(T_release, <<SP>> \o V16),
           FieldLine(T_backport, <<SP>> \o Quoted(SQ, V99))>>),
    Body(<<FieldLine(T_release, <<SP, "[">> \o Quoted(DQ, V15) \o <<",">>
                       \o Quoted(DQ, V99) \o <<",", SP>> \o Quoted(DQ, V16) \o <<"]">>)>>),
    Body(<<FieldLine(T_release, <<SP, "[">> \o Quoted(SQ, V15) \o <<",", SP>>
                       \o Quoted(DQ, V15) \o <<"]">>),
           FieldLine(T_backport, <<SP, "[">> \o V14 \o <<"]">>)>>),
    Body(<<FieldLine(T_needs_feature_branch, <<SP>> \o Quoted(DQ, <<"T","R","U","E">>))>>),
    Body(<<FieldLine(T_needs_feature_branch, <<SP>> \o Quoted(SQ, T_false) \o <<SP, "#", "c">>)>>),
    Body(<<FieldLine(T_needs_feature_branch, <<SP>> \o T_maybe)>>),
    Body(<<FieldLine(T_needs_feature_branch, <<SP>> \o T_false)>>),
    Body(<<FieldLine(T_release, <<>>),
           FieldLine(T_backport, <<SP>> \o V14)>>),
    Body(<<FieldLine(T_release, <<SP>> \o Quoted(DQ, V15) \o <<SP, "#", "c">>),
           FieldLine(T_needs_feature_branch, <<SP, "T","r","u","e">>)>>),
    Body(<<FieldLine(T_backport, <<SP, "[">> \o V14)>>),
    Body(<<FieldLine(T_release, <<SP>> \o V99),
           FieldLine(T_needs_feature_branch, <<SP, "[">> \o T_true \o <<"]">>)>>),
    Body(<<FieldLine(T_release, <<SP, "[">> \o V15 \o <<SP>> \o V16 \o <<"]">>),
           FieldLine(T_backport, <<SP>> \o V14)>>),
    Body(<<FieldLine(T_needs_feature_branch, <<SP, "[">> \o T_true \o <<"]">>)>>) }

\* parseYamlFromText of every body of the model, computed once
YamlOfBody == [b \in Bodies |-> parseYamlFromText(b)]

L_release20 == T_releaseDash \o V20
L_backport10 == T_backportDash \o V10

InitialLabelSets ==
  { {}, {L_release20}, {L_backport10}, {T_featureBranch},
    {L_release20, L_backport10, T_featureBranch} }

(***************************************************************************)
(* GitHub state and the locals of one invocation                           *)
(***************************************************************************)
\* the identifier passed to cleanupWorkflowComments for a validation domain
\* and the heading of the error comment of that domain contain the same
\* marker text; a comment records the domain whose heading it carries
UserComment == [id |-> 0, domain |-> "user"]

\* a filter that keeps no comment
BodyIncludes_none(comment, domain) == FALSE

\* comment.body.includes(identifier), identifier being the marker of domain
BodyIncludes(comment, domain) == comment.domain = domain

NoCheckRun == 0
DryRunCheckId == -1

NoCall == <<>>
Call(op, ls, tag) == [op |-> op, labels |-> ls, tag |-> tag]

\* the previous invocation, when it decided on the same body: the labels it
\* proposed and the labels of the pull request when it started
NoPrev == [valid |-> FALSE, proposed |-> <<>>, labelsBefore |-> {}]

Fresh ==
  [pc |-> "idle", outcome |-> "none",
   features |-> [releaseLabeling |-> FALSE, backportLabeling |-> FALSE,
                 featureBranch |-> FALSE],
   yaml |-> Null, dom |-> "", checkRun |-> NoCheckRun,
   validationErrors |-> <<>>, labelsToAdd |-> <<>>, decided |-> FALSE,
   fbValue |-> Null, fbError |-> NoError, site |-> "", todo |-> <<>>, adding |-> <<>>,
   title |-> "", labelsAdded |-> <<>>, actions |-> 0,
   calls |-> NoCall, fails |-> 0,
   labelsBefore |-> {}, commentsBefore |-> <<>>,
   prev |-> NoPrev]

Init ==
  /\ labels \in InitialLabelSets
  /\ comments = <<UserComment>>
  /\ nextId = 1
  /\ checkRuns = <<>>
  /\ pr = [body |-> <<>>, draft |-> FALSE]
  /\ opts \in OptionSets
  /\ inv = Fresh
  /\ ninv = 0
  /\ peer = NoPeer
  /\ ptext = <<>>
  /\ pout = NoParse
  /\ top = NoRun
  /\ issueLabels = {}
  /\ sd = NoStalePass

\* outcomes a gateway call may have: it may fail while failures are left
CanFail == inv.fails < MaxFailures
Outcomes == {"ok"} \cup (IF CanFail THEN {"fail"} ELSE {})

Log(r, c) == [r EXCEPT !.calls = Append(@, c)]
Failed(r) == [r EXCEPT !.fails = @ + 1]

Returned(r) == [r EXCEPT !.pc = "done", !.outcome = "returned"]
Raised(r) == [r EXCEPT !.pc = "done", !.outcome = "raised"]

rbEnabled(features) == features.releaseLabeling \/ features.backportLabeling

\* entry of cleanupWorkflowComments at a call site
EnterCleanup(r, site) == [r EXCEPT !.pc = "cleanup_list", !.site = site, !.todo = <<>>]

CleanupDomain(site) ==
  IF site \in {"noyaml_rb", "rb"} THEN "rb" ELSE "fb"

\* what follows the return of processReleaseBackportLabeling or
\* processFeatureBranchLabeling in execute
AfterDomain(r) ==
  IF r.dom = "rb" /\ r.features.featureBranch
    THEN [r EXCEPT !.pc = "createCheckRun", !.dom = "fb"]
    ELSE Returned(r)

\* the release/backport rule without its addLabels call
AfterCleanup_noLabels(r) ==
  CASE r.site = "noyaml_fb" ->
         IF rbEnabled(r.features) THEN EnterCleanup(r, "noyaml_rb") ELSE Returned(r)
    [] r.site = "noyaml_rb" -> Returned(r)
    [] r.site = "rb" ->
         [r EXCEPT !.pc = "successUpdate", !.title = "No YAML Validation Required"]
    [] OTHER -> [r EXCEPT !.pc = "successUpdate"]

\* what follows the return of cleanupWorkflowComments at each call site
AfterCleanup(r) ==
  CASE r.site = "noyaml_fb" ->
         IF rbEnabled(r.features) THEN EnterCleanup(r, "noyaml_rb") ELSE Returned(r)
    [] r.site = "noyaml_rb" -> Returned(r)
    [] r.site = "rb" ->
         IF Len(r.labelsToAdd) > 0
           THEN [r EXCEPT !.pc = "rb_addLabels", !.adding = r.labelsToAdd]
           ELSE [r EXCEPT !.pc = "successUpdate", !.title = "No YAML Validation Required"]
    [] OTHER -> [r EXCEPT !.pc = "successUpdate"]

\* a throw inside the try block of a process function: its catch block
Throw(r) == [r EXCEPT !.pc = "catchUpdate"]

(***************************************************************************)
(* LabelAutomation.execute for a pull_request event, one gateway call per  *)
(* action                                                                  *)
(***************************************************************************)
UnchangedHarness == UNCHANGED <<ptext, pout, opts, top, issueLabels, sd, peer>>

\* execute from the pull request data to its first gateway call: the draft
\* check and the feature dispatch, for the locals r of a new invocation
Entered(r, d) ==
  IF d THEN Returned(r)
  ELSE IF ~Truthy(r.yaml) THEN
    IF r.features.featureBranch THEN EnterCleanup(r, "noyaml_fb")
    ELSE IF rbEnabled(r.features) THEN EnterCleanup(r, "noyaml_rb")
    ELSE Returned(r)
  ELSE IF rbEnabled(r.features)
    THEN [r EXCEPT !.pc = "createCheckRun", !.dom = "rb"]
  ELSE IF r.features.featureBranch
    THEN [r EXCEPT !.pc = "createCheckRun", !.dom = "fb"]
  ELSE Returned(r)

\* execute up to its first gateway call, parseYamlFromText included; b and d
\* are the body and the draft flag of the pull request data
StartCore(b, d) ==
  /\ inv.pc \in {"idle", "done"}
  /\ ninv < MaxInvocations
  /\ ninv' = ninv + 1
  /\ pr' = [pr EXCEPT !.body = b, !.draft = d]
  /\ checkRuns' = <<>>
  /\ LET features == detectEnabledFeatures(opts)
         yamlContent == YamlOfBody[b]
         r == [Fresh EXCEPT !.pc = "running", !.features = features,
                            !.yaml = yamlContent,
                            !.labelsBefore = labels,
                            !.commentsBefore = comments,
                            !.prev = IF inv.decided /\ b = pr.body
                                       THEN [valid |-> TRUE,
                                             proposed |-> inv.labelsToAdd,
                                             labelsBefore |-> inv.labelsBefore]
                                       ELSE NoPrev]
     IN  inv' = Entered(r, d)
  /\ UNCHANGED <<labels, comments, nextId>>

\* execute of a pull_request event: extractPRData reads the pull request from
\* the event; b and d are its body and draft flag at the time of the event
Start(b, d) ==
  /\ StartCore(b, d)
  /\ UnchangedHarness

\* cleanupWorkflowComments: listComments and the filter on the identifier; a
\* failure is caught inside cleanupWorkflowComments
CleanupList ==
  /\ inv.pc = "cleanup_list"
  /\ \E outcome \in Outcomes :
       LET r == Log(inv, Call("listComments", <<>>, CleanupDomain(inv.site)))
           workflowComments ==
             SelectSeq(comments, LAMBDA c : BodyIncludes(c, CleanupDomain(inv.site)))
           ids == [i \in 1..Len(workflowComments) |-> workflowComments[i].id]
       IN  inv' = IF outcome = "fail" THEN AfterCleanup(Failed(r))
                  ELSE IF Len(ids) = 0 THEN AfterCleanup(r)
                  ELSE [r EXCEPT !.pc = "cleanup_delete", !.todo = ids]
  /\ UNCHANGED <<labels, comments, nextId, checkRuns, pr, ninv>>
  /\ UnchangedHarness

\* cleanupWorkflowComments: one deleteComment of the loop; a failure (also a
\* comment that no longer exists) leaves the loop through the catch
CleanupDelete ==
  /\ inv.pc = "cleanup_delete"
  /\ \E outcome \in Outcomes :
       LET id == Head(inv.todo)
           r == Log(inv, Call("deleteComment", <<>>, CleanupDomain(inv.site)))
           exists == \E i \in 1..Len(comments) : comments[i].id = id
           fails == outcome = "fail" \/ (~isDryRun(opts) /\ ~exists)
           rest == [r EXCEPT !.todo = Tail(@)]
       IN  /\ comments' = IF isDryRun(opts) \/ fails THEN comments
                          ELSE SelectSeq(comments, LAMBDA c : c.id # id)
           /\ inv' = IF isDryRun(opts) THEN
                       (IF Len(rest.todo) = 0 THEN AfterCleanup(rest) ELSE rest)
                     ELSE IF outcome = "fail" THEN AfterCleanup(Failed(rest))
                     ELSE IF fails THEN AfterCleanup(rest)
                     ELSE IF Len(rest.todo) = 0 THEN AfterCleanup(rest)
                     ELSE rest
  /\ UNCHANGED <<labels, nextId, checkRuns, pr, ninv>>
  /\ UnchangedHarness

CheckRunName(dom) ==
  IF dom = "rb" THEN "YAML Validation (Release/Backport)"
  ELSE "YAML Validation (Feature Branch)"

\* createCheckRun at the head of both process functions; a failure is thrown
\* while checkRun is still null, so the catch block updates nothing
CreateCheckRun ==
  /\ inv.pc = "createCheckRun"
  /\ \E outcome \in (IF isDryRun(opts) THEN {"ok"} ELSE Outcomes) :
       LET r == Log(inv, Call("createCheckRun", <<>>, CheckRunName(inv.dom)))
           next == IF inv.dom = "rb" THEN "rb_getLabels" ELSE "fb_getLabels"
       IN  IF isDryRun(opts) THEN
             /\ checkRuns' = checkRuns
             /\ inv' = [r EXCEPT !.pc = next, !.checkRun = DryRunCheckId]
           ELSE IF outcome = "fail" THEN
             /\ checkRuns' = checkRuns
             /\ inv' = Raised(Failed(r))
           ELSE
             /\ checkRuns' = Append(checkRuns,
                  [name |-> CheckRunName(inv.dom), status |-> "in_progress",
                   conclusion |-> "", title |-> "", updates |-> 0])
             /\ inv' = [r EXCEPT !.pc = next, !.checkRun = Len(checkRuns) + 1]
  /\ UNCHANGED <<labels, comments, nextId, pr, ninv>>
  /\ UnchangedHarness

\* updateCheckRun that completes the check run without its conclusion
updateCheckRun_noConclusion(runs, checkRunId, status, conclusion, title) ==
  IF isDryRun(opts) THEN runs
  ELSE [runs EXCEPT ![checkRunId] =
          [@ EXCEPT !.status = status, !.updates = @ + 1]]

\* GitHubClient.updateCheckRun: the check runs after the call
updateCheckRun(runs, checkRunId, status, conclusion, title) ==
  IF isDryRun(opts) THEN runs
  ELSE [runs EXCEPT ![checkRunId] =
          [@ EXCEPT !.status = status, !.conclusion = conclusion,
                    !.title = title, !.updates = @ + 1]]

\* the branch on validationErrors without its early return
AfterDecision_noReturn(r) == EnterCleanup(r, "rb")

\* the branch on validationErrors: handleValidationErrors and return, or the
\* cleanup of the release/backport error comments
AfterDecision(r) ==
  IF Len(r.validationErrors) > 0 THEN [r EXCEPT !.pc = "hv_update"]
  ELSE EnterCleanup(r, "rb")

\* processReleaseBackportLabeling: getLabels, processReleaseLabel,
\* processBackportLabel and the branch on validationErrors
RB_GetLabels ==
  /\ inv.pc = "rb_getLabels"
  /\ \E outcome \in Outcomes :
       LET r == Log(inv, Call("getLabels", <<>>, ""))
           d == ReleaseBackportDecision(opts, inv.features, inv.yaml, labels)
           decided == [r EXCEPT !.validationErrors = d.validationErrors,
                                !.labelsToAdd = d.labelsToAdd,
                                !.decided = TRUE]
       IN  inv' = IF outcome = "fail" THEN Throw(Failed(r))
                  ELSE AfterDecision(decided)
  /\ UNCHANGED <<labels, comments, nextId, checkRuns, pr, ninv>>
  /\ UnchangedHarness

\* handleValidationErrors / handleFeatureBranchValidationError: the
\* updateCheckRun with conclusion failure
HV_UpdateCheckRun ==
  /\ inv.pc = "hv_update"
  /\ \E outcome \in (IF isDryRun(opts) THEN {"ok"} ELSE Outcomes) :
       LET r == Log(inv, Call("updateCheckRun:failure", <<>>, "YAML Validation Failed"))
       IN  IF outcome = "fail" THEN
             /\ checkRuns' = checkRuns
             /\ inv' = Throw(Failed(r))
           ELSE
             /\ checkRuns' = updateCheckRun(checkRuns, inv.checkRun, "completed",
                                            "failure", "YAML Validation Failed")
             /\ inv' = [r EXCEPT !.pc = "hv_comment"]
  /\ UNCHANGED <<labels, comments, nextId, pr, ninv>>
  /\ UnchangedHarness

\* handleValidationErrors / handleFeatureBranchValidationError: createComment
\* of the error comment, then the return of the process function
HV_CreateComment ==
  /\ inv.pc = "hv_comment"
  /\ \E outcome \in (IF isDryRun(opts) THEN {"ok"} ELSE Outcomes) :
       LET r == Log(inv, Call("createComment", <<>>, inv.dom))
       IN  IF outcome = "fail" THEN
             /\ UNCHANGED <<comments, nextId>>
             /\ inv' = Throw(Failed(r))
           ELSE IF isDryRun(opts) THEN
             /\ UNCHANGED <<comments, nextId>>
             /\ inv' = AfterDomain(r)
           ELSE
             /\ comments' = Append(comments, [id |-> nextId, domain |-> inv.dom])
             /\ nextId' = nextId + 1
             /\ inv' = AfterDomain(r)
  /\ UNCHANGED <<labels, checkRuns, pr, ninv>>
  /\ UnchangedHarness

\* a request that sets the labels of the target to the labels given
issuesAddLabels_replacing(currentLabels, names) == Range(names)

\* the issues.addLabels request that succeeds: the labels of the target after
\* it are those it had and those given
issuesAddLabels(currentLabels, names) == currentLabels \cup Range(names)

\* outcomes of the issues.addLabels request: success, 403, 422, other error
AddLabelsOutcomes == {"ok"} \cup (IF CanFail THEN {"403", "422", "500"} ELSE {})

\* what follows a returned addLabels: the push onto result.labelsAdded and
\* result.actions, then the rest of the process function
AfterAddLabels(r, added) ==
  LET pushed == [r EXCEPT !.labelsAdded = @ \o added, !.actions = @ + 1]
  IN  IF r.dom = "rb"
        THEN [pushed EXCEPT !.pc = "successUpdate", !.title = "YAML Validation Successful"]
        ELSE EnterCleanup([pushed EXCEPT !.title = "YAML Validation Successful"], "fb_true")

\* an addLabels whose request is refused with an error when the labels are
\* on the pull request already
AddLabelsCall_refusing ==
  LET r == Log(inv, Call("addLabels", inv.adding, inv.dom))
  IN  IF Range(inv.adding) \subseteq labels THEN
        /\ labels' = labels
        /\ inv' = Throw(r)
      ELSE
        /\ labels' = issuesAddLabels(labels, inv.adding)
        /\ inv' = AfterAddLabels(r, inv.adding)

\* GitHubClient.addLabels up to the answer of the request, for the labels in
\* inv.adding; a 422 goes on in _handle422Error
AddLabelsCall ==
  \E outcome \in (IF isDryRun(opts) THEN {"ok"} ELSE AddLabelsOutcomes) :
    LET r == Log(inv, Call("addLabels", inv.adding, inv.dom))
    IN  IF isDryRun(opts) THEN
          /\ labels' = labels
          /\ inv' = AfterAddLabels(r, inv.adding)
        ELSE IF outcome = "ok" THEN
          /\ labels' = issuesAddLabels(labels, inv.adding)
          /\ inv' = AfterAddLabels(r, inv.adding)
        ELSE IF outcome = "422" THEN
          /\ labels' = labels
          /\ inv' = [Failed(r) EXCEPT !.pc = "handle422"]
        ELSE
          /\ labels' = labels
          /\ inv' = Throw(Failed(r))

\* processReleaseBackportLabeling: addLabels(prNumber, labelsToAdd), reached
\* after the cleanup of the release/backport error comments
RB_AddLabels ==
  /\ inv.pc = "rb_addLabels"
  /\ inv.adding = inv.labelsToAdd
  /\ AddLabelsCall
  /\ UNCHANGED <<comments, nextId, checkRuns, pr, ninv>>
  /\ UnchangedHarness

\* processFeatureBranchLabeling: addLabels(prNumber, ['feature-branch']),
\* called before the cleanup of the feature-branch error comments
FB_AddLabels ==
  /\ inv.pc = "fb_addLabels"
  /\ inv.adding = <<T_featureBranch>>
  /\ AddLabelsCall
  /\ UNCHANGED <<comments, nextId, checkRuns, pr, ninv>>
  /\ UnchangedHarness

\* GitHubClient._handle422Error: the labels are read again; the call returns
\* a skip when one of the requested labels is on the target, else it throws
Handle422 ==
  /\ inv.pc = "handle422"
  /\ \E outcome \in Outcomes :
       LET r == Log(inv, Call("getLabels", <<>>, "422"))
           alreadyHasLabels == SelectSeq(inv.adding, LAMBDA l : l \in labels)
       IN  inv' = IF outcome = "fail" THEN Throw(Failed(r))
                  ELSE IF Len(alreadyHasLabels) > 0 THEN AfterAddLabels(r, <<>>)
                  ELSE Throw(r)
  /\ UNCHANGED <<labels, comments, nextId, checkRuns, pr, ninv>>
  /\ UnchangedHarness

\* the updateCheckRun with conclusion success that ends a process function
SuccessUpdate ==
  /\ inv.pc = "successUpdate"
  /\ \E outcome \in (IF isDryRun(opts) THEN {"ok"} ELSE Outcomes) :
       LET r == Log(inv, Call("updateCheckRun:success", <<>>, inv.title))
       IN  IF outcome = "fail" THEN
             /\ checkRuns' = checkRuns
             /\ inv' = Throw(Failed(r))
           ELSE
             /\ checkRuns' = updateCheckRun(checkRuns, inv.checkRun, "completed",
                                            "success", inv.title)
             /\ inv' = AfterDomain(r)
  /\ UNCHANGED <<labels, comments, nextId, pr, ninv>>
  /\ UnchangedHarness

CatchTitle(dom) ==
  IF dom = "rb" THEN "Label Assignment Failed" ELSE "Workflow Execution Failed"

\* the catch block of a process function: checkRun is set, so the check run
\* is completed with conclusion failure; then the error (or the error of
\* this update) is thrown again and leaves execute
CatchUpdate ==
  /\ inv.pc = "catchUpdate"
  /\ \E outcome \in (IF isDryRun(opts) THEN {"ok"} ELSE Outcomes) :
       LET r == Log(inv, Call("updateCheckRun:failure", <<>>, CatchTitle(inv.dom)))
       IN  IF outcome = "fail" THEN
             /\ checkRuns' = checkRuns
             /\ inv' = Raised(Failed(r))
           ELSE
             /\ checkRuns' = updateCheckRun(checkRuns, inv.checkRun, "completed",
                                            "failure", CatchTitle(inv.dom))
             /\ inv' = Raised(r)
  /\ UNCHANGED <<labels, comments, nextId, pr, ninv>>
  /\ UnchangedHarness

\* currentLabels.includes('feature-branch') without the reading of the labels
IncludesFeatureBranch_never(currentLabels) == FALSE

\* currentLabels.includes('feature-branch')
IncludesFeatureBranch(currentLabels) == T_featureBranch \in currentLabels

\* processFeatureBranchLabeling: getLabels, the check for the feature-branch
\* label, parseYamlValue of needs_feature_branch and the branch on its value;
\* toLowerCase of an array value throws a TypeError
FB_GetLabels ==
  /\ inv.pc = "fb_getLabels"
  /\ \E outcome \in Outcomes :
       LET r == Log(inv, Call("getLabels", <<>>, ""))
           hasFeatureBranchLabel == IncludesFeatureBranch(labels)
           featureBranchValue == parseYamlValue(inv.yaml, T_needs_feature_branch)
           read == [r EXCEPT !.fbValue = featureBranchValue]
           lowerValue == ToLowerCase(featureBranchValue.v)
       IN  inv' =
             IF outcome = "fail" THEN Throw(Failed(r))
             ELSE IF hasFeatureBranchLabel
               THEN EnterCleanup([r EXCEPT !.title = "Feature Branch Label Already Present"],
                                 "fb_present")
             ELSE IF ~Truthy(featureBranchValue)
               THEN EnterCleanup([read EXCEPT !.title = "No YAML Validation Required"],
                                 "fb_absent")
             ELSE IF IsArray(featureBranchValue) THEN Throw(read)
             ELSE IF lowerValue = T_true
               THEN [read EXCEPT !.pc = "fb_addLabels", !.adding = <<T_featureBranch>>]
             ELSE IF lowerValue = T_false \/ lowerValue = <<>>
               THEN EnterCleanup([read EXCEPT !.title = "YAML Validation Successful"],
                                 "fb_false")
             ELSE [read EXCEPT !.pc = "hv_update",
                     !.fbError = [category |-> "needs_feature_branch",
                                  plural |-> FALSE,
                                  invalid |-> <<featureBranchValue.v>>,
                                  accepted |-> <<T_true, T_false>>]]
  /\ UNCHANGED <<labels, comments, nextId, checkRuns, pr, ninv>>
  /\ UnchangedHarness

Next ==
  \/ \E b \in Bodies, d \in BOOLEAN : Start(b, d)
  \/ CleanupList
  \/ CleanupDelete
  \/ CreateCheckRun
  \/ RB_GetLabels
  \/ HV_UpdateCheckRun
  \/ HV_CreateComment
  \/ RB_AddLabels
  \/ FB_AddLabels
  \/ Handle422
  \/ SuccessUpdate
  \/ CatchUpdate
  \/ FB_GetLabels

Spec == Init /\ [][Next]_vars

(***************************************************************************)
(* Specification SpecValidate: validateReleaseValue, validateBackportValue,*)
(* getValidValues and getInvalidValues applied to bounded values           *)
(***************************************************************************)
MaxItems == 3   \* elements of an array value

ValidatedVersions == {V14, V15, V99}

\* the accepted lists of the options
Allowlists ==
  {<<>>} \cup {<<a>> : a \in {V14, V15, V16}}
         \cup {<<a, b>> : a, b \in {V14, V15, V16}}

\* the lists of at most n versions
VersionLists(n) ==
  UNION {[1..k -> ValidatedVersions] : k \in 0..n}

\* the values handed to the validators: a scalar or an array
ValidatedValues ==
  {Scalar(v) : v \in ValidatedVersions}
    \cup {ArrayOf(vs) : vs \in VersionLists(MaxItems)}

NoValidation == [field |-> <<>>, out |-> Null, valid |-> <<>>, invalid |-> <<>>]

InitValidate ==
  /\ ptext \in ValidatedValues
  /\ pout = NoValidation
  /\ opts \in {Options(releases, backports, FALSE, FALSE) :
                 releases \in Allowlists, backports \in Allowlists}
  /\ labels = {}
  /\ comments = <<>>
  /\ nextId = 1
  /\ checkRuns = <<>>
  /\ pr = [body |-> <<>>, draft |-> FALSE]
  /\ inv = Idle
  /\ top = NoRun
  /\ issueLabels = {}
  /\ sd = NoStalePass
  /\ ninv = 0
  /\ peer = NoPeer

\* validateReleaseValue or validateBackportValue of the value, then
\* getValidValues and getInvalidValues of its result
ValidateField(f) ==
  /\ pout = NoValidation
  /\ LET validationResult == IF f = T_release THEN validateReleaseValue(opts, ptext)
                              ELSE validateBackportValue(opts, ptext)
     IN  pout' = [field |-> f, out |-> validationResult,
                  valid |-> getValidValues(validationResult),
                  invalid |-> getInvalidValues(validationResult)]
  /\ UNCHANGED <<labels, comments, nextId, checkRuns, pr, opts, inv, ninv, ptext,
                 top, issueLabels, sd, peer>>

NextValidate == \E f \in {T_release, T_backport} : ValidateField(f)

SpecValidate == InitValidate /\ [][NextValidate]_vars

(***************************************************************************)
(* Two overlapping invocations of LabelAutomation.execute for one pull     *)
(* request: both have read the same pull request data, and their gateway   *)
(* calls interleave in any order                                           *)
(***************************************************************************)
OverlapBodies ==
  { <<"h","i">>,
    Body(<<FieldLine(T_release, <<SP>> \o V15),
           FieldLine(T_backport, <<SP>> \o V14)>>),
    Body(<<FieldLine(T_needs_feature_branch, <<SP>> \o Quoted(DQ, <<"T","R","U","E">>))>>),
    Body(<<FieldLine(T_release, <<SP>> \o Quoted(DQ, V15) \o <<SP, "#", "c">>),
           FieldLine(T_needs_feature_branch, <<SP, "T","r","u","e">>)>>),
    Body(<<FieldLine(T_release, <<SP>> \o V99),
           FieldLine(T_needs_feature_branch, <<SP, "[">> \o T_true \o <<"]">>)>>) }

OverlapComments ==
  { <<UserComment>>,
    <<UserComment, [id |-> 1, domain |-> "rb"], [id |-> 2, domain |-> "fb"]>> }

\* the locals of an invocation that has read the pull request data
Invoked(b, ls, cs) ==
  Entered([Fresh EXCEPT !.pc = "running",
                        !.features = detectEnabledFeatures(opts),
                        !.yaml = YamlOfBody[b],
                        !.labelsBefore = ls,
                        !.commentsBefore = cs], FALSE)

InitOverlap ==
  /\ labels \in InitialLabelSets
  /\ comments \in OverlapComments
  /\ nextId = 3
  /\ checkRuns = <<>>
  /\ pr \in {[body |-> b, draft |-> FALSE] : b \in OverlapBodies}
  /\ opts \in OptionSets
  /\ inv = Invoked(pr.body, labels, comments)
  /\ peer = inv
  /\ ninv = MaxInvocations
  /\ ptext = <<>>
  /\ pout = NoParse
  /\ top = NoRun
  /\ issueLabels = {}
  /\ sd = NoStalePass

\* the other invocation makes the next gateway call
Switch ==
  /\ peer.pc \notin {"none", "done"}
  /\ inv' = peer
  /\ peer' = inv
  /\ UNCHANGED <<labels, comments, nextId, checkRuns, pr, opts, ninv, ptext, pout,
                 top, issueLabels, sd>>

NextOverlap ==
  \/ Switch
  \/ CleanupList
  \/ CleanupDelete
  \/ CreateCheckRun
  \/ RB_GetLabels
  \/ HV_UpdateCheckRun
  \/ HV_CreateComment
  \/ RB_AddLabels
  \/ FB_AddLabels
  \/ Handle422
  \/ SuccessUpdate
  \/ CatchUpdate
  \/ FB_GetLabels

SpecOverlap == InitOverlap /\ [][NextOverlap]_vars

\* an edit of the pull request body that repairs it: the body of the older
\* pull_request event has a value that is rejected, the body of the newer
\* event is valid or has no YAML block
B_backportRejected ==
  Body(<<FieldLine(T_release, <<SP>> \o V16),
         FieldLine(T_backport, <<SP>> \o Quoted(SQ, V99))>>)
B_releaseBackport ==
  Body(<<FieldLine(T_release, <<SP>> \o V15),
         FieldLine(T_backport, <<SP>> \o V14)>>)
B_featureRejected == Body(<<FieldLine(T_needs_feature_branch, <<SP>> \o T_maybe)>>)
B_featureFalse == Body(<<FieldLine(T_needs_feature_branch, <<SP>> \o T_false)>>)
B_featureTrue ==
  Body(<<FieldLine(T_needs_feature_branch, <<SP>> \o Quoted(DQ, <<"T","R","U","E">>))>>)
B_noYaml == <<"h","i">>

RacingEdits ==
  { [older |-> B_backportRejected, newer |-> B_releaseBackport],
    [older |-> B_backportRejected, newer |-> B_noYaml],
    [older |-> B_featureRejected, newer |-> B_featureFalse],
    [older |-> B_featureRejected, newer |-> B_featureTrue] }

\* two pull_request events of one pull request, the second after an edit of
\* its body; each invocation took the body from its event, and the pull
\* request holds the newer body
InitRace ==
  /\ labels \in InitialLabelSets
  /\ comments \in OverlapComments
  /\ nextId = 3
  /\ checkRuns = <<>>
  /\ opts \in OptionSets
  /\ \E edit \in RacingEdits :
       /\ pr = [body |-> edit.newer, draft |-> FALSE]
       /\ inv = Invoked(edit.older, labels, comments)
       /\ peer = Invoked(edit.newer, labels, comments)
  /\ ninv = MaxInvocations
  /\ ptext = <<>>
  /\ pout = NoParse
  /\ top = NoRun
  /\ issueLabels = {}
  /\ sd = NoStalePass

SpecRace == InitRace /\ [][NextOverlap]_vars

(***************************************************************************)
(* RepositoryAutomation.execute: the triage rules, the label automation    *)
(* and the stale detection of one event, one gateway call per action       *)
(***************************************************************************)
T_triage == <<"t","r","i","a","g","e">>
T_readyForReview ==
  <<"r","e","a","d","y",SP,"f","o","r",SP,"r","e","v","i","e","w">>
T_stale == <<"s","t","a","l","e">>

\* the label names handlePullRequestEvent asks hasLabels about
N_releaseStar == T_release \o <<SP, "*">>
N_backportStar == T_backport \o <<SP, "*">>

\* GitHubClient.hasLabels, for one label name, on the labels read
HasLabel(currentLabels, labelName) ==
  IF Len(labelName) > 0 /\ labelName[Len(labelName)] = "*"
    THEN SomeStartsWith(currentLabels, SubSeq(labelName, 1, Len(labelName) - 1))
    ELSE labelName \in currentLabels

\* GitHubClient.hasLabels on the labels read
hasLabels(currentLabels, labelNames) ==
  [labelName \in labelNames |-> HasLabel(currentLabels, labelName)]

\* features.staleDetection of detectEnabledFeatures
\* !!(options.staleDays): the option is <<>> when it is not given and holds
\* the number of days otherwise
HasStaleDays(o) == o.staleDays # <<>> /\ o.staleDays[1] # 0

staleDetection(o, eventName) == HasStaleDays(o) \/ eventName = "schedule"

\* a validation that checks the number of days only
validate_daysOnly(o, eventName) ==
  ~(staleDetection(o, eventName) /\ HasStaleDays(o) /\ o.staleDays[1] < 1)

\* ConfigManager.validate; a value that is missing is the empty string
validate(o, eventName) ==
  /\ ~(o.owner = "" \/ o.repo = "")
  /\ o.githubToken # ""
  /\ ~(staleDetection(o, eventName) /\ HasStaleDays(o) /\ o.staleDays[1] < 1)

WithStaleDays(o, days) == [o EXCEPT !.staleDays = <<days>>]

RunOptionSets ==
  { WithStaleDays(Options(<<V15, V16>>, <<V14>>, TRUE, FALSE), 1),
    Options(<<>>, <<>>, FALSE, FALSE),
    Options(<<V15, V16>>, <<V14>>, TRUE, TRUE),
    Options(<<V15, V16>>, <<>>, FALSE, FALSE),
    WithStaleDays(Options(<<>>, <<>>, FALSE, FALSE), -1),
    WithStaleDays(Options(<<>>, <<>>, FALSE, FALSE), 0),
    [Options(<<V15, V16>>, <<V14>>, TRUE, FALSE) EXCEPT !.owner = ""],
    [Options(<<V15, V16>>, <<V14>>, TRUE, FALSE) EXCEPT !.repo = ""],
    [Options(<<V15, V16>>, <<V14>>, TRUE, FALSE) EXCEPT !.githubToken = ""] }

RunBodies ==
  { <<"h","i">>,
    Body(<<FieldLine(T_release, <<SP>> \o Quoted(DQ, V15) \o <<SP, "#", "c">>),
           FieldLine(T_needs_feature_branch, <<SP, "T","r","u","e">>)>>),
    Body(<<FieldLine(T_release, <<SP>> \o V16),
           FieldLine(T_backport, <<SP>> \o Quoted(SQ, V99))>>),
    Body(<<FieldLine(T_release, <<SP>> \o V99),
           FieldLine(T_needs_feature_branch, <<SP, "[">> \o T_true \o <<"]">>)>>),
    Body(<<FieldLine(T_backport, <<SP, "[">> \o V14)>>),
    Body(<<FieldLine(T_needs_feature_branch, <<SP>> \o T_maybe)>>) }

L_releaseSpace10 == T_release \o <<SP>> \o V10
L_backportSpace10 == T_backport \o <<SP>> \o V10

RunLabelSets ==
  { {}, {T_triage}, {L_releaseSpace10}, {L_release20},
    {L_backportSpace10, T_stale}, {L_releaseSpace10, T_readyForReview} }

\* the branch of the pull request of the repository
FeatureBranch == "feature"

PullRequests ==
  { [body |-> b, draft |-> ds[1], state |-> ds[2], head |-> FeatureBranch] :
      b \in RunBodies,
      ds \in {<<FALSE, "open">>, <<TRUE, "open">>, <<FALSE, "closed">>} }

Event(kind, action, conclusion, branch) ==
  [kind |-> kind, action |-> action, conclusion |-> conclusion, branch |-> branch]

NoEvent == Event("", "", "", "")

RunEvents ==
  { Event("issues", "opened", "", ""),
    Event("issues", "unlabeled", "", ""),
    Event("pull_request", "opened", "", ""),
    Event("pull_request", "unlabeled", "", ""),
    Event("workflow_run", "completed", "failure", FeatureBranch),
    Event("workflow_run", "completed", "success", ""),
    Event("workflow_run", "completed", "success", "main"),
    Event("workflow_run", "completed", "success", "other"),
    Event("workflow_run", "completed", "success", FeatureBranch),
    Event("schedule", "", "", "") }

ErrorComment == [id |-> 1, domain |-> "rb"]

ReadyRun ==
  [pc |-> "ready", event |-> NoEvent, outcome |-> "none",
   staleDetection |-> FALSE, labelsAdded |-> <<>>, actions |-> 0,
   calls |-> NoCall, fails |-> 0, adding |-> <<>>, target |-> "",
   stage |-> "", decision |-> "none", labelRun |-> "none",
   staleRun |-> "none", labelsBefore |-> {}, issueLabelsBefore |-> {},
   commentsBefore |-> <<>>]

InitRun ==
  /\ labels \in RunLabelSets
  /\ issueLabels \in {{}, {T_triage}}
  /\ comments \in {<<UserComment>>, <<UserComment, ErrorComment>>}
  /\ nextId = 2
  /\ checkRuns = <<>>
  /\ pr \in PullRequests
  /\ opts \in RunOptionSets
  /\ inv = Fresh
  /\ ninv = 0
  /\ peer = NoPeer
  /\ ptext = <<>>
  /\ pout = NoParse
  /\ top = ReadyRun
  /\ sd = NoStalePass

TopCanFail == top.fails < MaxFailures
TopOutcomes == {"ok"} \cup (IF TopCanFail THEN {"fail"} ELSE {})

TopReturned(t) == [t EXCEPT !.pc = "done", !.outcome = "returned"]
TopRaised(t) == [t EXCEPT !.pc = "done", !.outcome = "raised"]

\* execute after executeLabelAutomation: executeStaleDetection when the
\* feature is enabled, then the return of the result
AfterLabelAutomation(t) ==
  IF t.staleDetection THEN [t EXCEPT !.pc = "stale_list", !.staleRun = "executed"]
  ELSE TopReturned(t)

\* execute with an executeLabelAutomation that does not look at the event name
AfterTriage_anyEvent(t) ==
  IF rbEnabled(detectEnabledFeatures(opts)) \/ detectEnabledFeatures(opts).featureBranch
    THEN [t EXCEPT !.pc = "la_begin"]
    ELSE AfterLabelAutomation(t)

\* execute after executeTriageAutomation: executeLabelAutomation when a label
\* feature is enabled, which does nothing for an event that is neither
\* pull_request nor workflow_run
AfterTriage(t) ==
  LET features == detectEnabledFeatures(opts)
  IN  IF (rbEnabled(features) \/ features.featureBranch)
         /\ t.event.kind \in {"pull_request", "workflow_run"}
        THEN [t EXCEPT !.pc = "la_begin"]
        ELSE AfterLabelAutomation(t)

\* handlePullRequestEvent without its check of prData.draft
EnterPullRequest_noDraftCheck(t, prData) == [t EXCEPT !.pc = "pr_getLabels"]

\* handlePullRequestEvent up to its first gateway call
EnterPullRequest(t, prData) ==
  IF prData.draft THEN AfterTriage(t)
  ELSE [t EXCEPT !.pc = "pr_getLabels"]

\* a lookup that answers with the pull request whatever the branch
findPRByBranch_any(branchName) == {pr}

\* GitHubClient.findPRByBranch: the pull request of the branch, open or closed
findPRByBranch(branchName) == IF branchName = pr.head THEN {pr} ELSE {}

\* execute up to the first gateway call of executeTriageAutomation
TopStart(e) ==
  /\ top.pc = "ready"
  /\ LET t == [top EXCEPT !.event = e,
                          !.staleDetection = staleDetection(opts, e.kind),
                          !.labelsBefore = labels,
                          !.issueLabelsBefore = issueLabels,
                          !.commentsBefore = comments]
     IN  top' =
           IF ~validate(opts, e.kind) THEN TopRaised(t)
           ELSE IF e.kind = "issues" THEN
             IF e.action # "opened" THEN AfterTriage(t)
             ELSE [t EXCEPT !.pc = "addLabels", !.adding = <<T_triage>>,
                            !.target = "issue", !.stage = "triage"]
           ELSE IF e.kind = "workflow_run" THEN
             IF e.conclusion # "success" THEN AfterTriage(t)
             ELSE IF e.branch = "" \/ e.branch = "main" THEN AfterTriage(t)
             ELSE [t EXCEPT !.pc = "findPR"]
           ELSE IF e.kind = "pull_request" THEN EnterPullRequest(t, pr)
           ELSE AfterTriage(t)
  /\ UNCHANGED <<labels, comments, nextId, checkRuns, pr, opts, inv, ninv,
                 ptext, pout, issueLabels, sd, peer>>

TopLog(t, c) == [t EXCEPT !.calls = Append(@, c)]
TopFailed(t) == [t EXCEPT !.fails = @ + 1]

\* handleWorkflowRunEvent: findPRByBranch and the checks on its answer
FindPR ==
  /\ top.pc = "findPR"
  /\ \E outcome \in TopOutcomes :
       LET t == TopLog(top, Call("findPRByBranch", <<>>, "triage"))
           found == findPRByBranch(top.event.branch)
       IN  top' =
             IF outcome = "fail" THEN TopRaised(TopFailed(t))
             ELSE IF found = {} THEN AfterTriage(t)
             ELSE IF pr.state = "closed" THEN AfterTriage(t)
             ELSE EnterPullRequest(t, pr)
  /\ UNCHANGED <<labels, comments, nextId, checkRuns, pr, opts, inv, ninv,
                 ptext, pout, issueLabels, sd, peer>>

\* handlePullRequestEvent: getLabels(prNumber), whose answer is only logged
PR_GetLabels ==
  /\ top.pc = "pr_getLabels"
  /\ \E outcome \in TopOutcomes :
       LET t == TopLog(top, Call("getLabels", <<>>, "triage"))
       IN  top' = IF outcome = "fail" THEN TopRaised(TopFailed(t))
                  ELSE [t EXCEPT !.pc = "pr_hasLabels"]
  /\ UNCHANGED <<labels, comments, nextId, checkRuns, pr, opts, inv, ninv,
                 ptext, pout, issueLabels, sd, peer>>

\* hasReleaseYaml and hasBackportYaml of handlePullRequestEvent for every body
\* of the model, computed once: the YAML block has a value for the field
HasYamlValue ==
  [b \in Bodies |->
     [field \in {T_release, T_backport} |->
        Truthy(YamlOfBody[b]) /\ Truthy(parseYamlValue(YamlOfBody[b], field))]]

\* the branch taken when only the labels are looked at
SmartDecision_labelsOnly(hasReleaseLabel, hasBackportLabel, hasReleaseYaml, hasBackportYaml, draft) ==
  IF hasReleaseLabel /\ ~draft THEN "ready"
  ELSE IF ~hasBackportLabel THEN "triage"
  ELSE "skip"

\* the branch handlePullRequestEvent takes
SmartDecision(hasReleaseLabel, hasBackportLabel, hasReleaseYaml, hasBackportYaml, draft) ==
  IF (hasReleaseLabel \/ hasReleaseYaml) /\ ~draft THEN "ready"
  ELSE IF ~hasBackportLabel /\ ~hasBackportYaml THEN "triage"
  ELSE "skip"

\* handleReadyForReviewLabel and handleTriageLabel up to their addLabels
AfterDecision_top(t, hasLabel, label) ==
  IF ~hasLabel
    THEN [t EXCEPT !.pc = "addLabels", !.adding = <<label>>,
                   !.target = "pr", !.stage = "triage"]
    ELSE AfterTriage(t)

\* handlePullRequestEvent after hasLabels has answered
AfterHasLabels(t, labelChecks, decision) ==
  IF decision = "ready"
    THEN AfterDecision_top([t EXCEPT !.decision = decision],
                           labelChecks[T_readyForReview], T_readyForReview)
  ELSE IF decision = "triage"
    THEN AfterDecision_top([t EXCEPT !.decision = decision],
                           labelChecks[T_triage], T_triage)
  ELSE AfterTriage([t EXCEPT !.decision = decision])

\* handlePullRequestEvent: hasLabels, which reads the labels again, the YAML
\* of the body and the decision
PR_HasLabels ==
  /\ top.pc = "pr_hasLabels"
  /\ \E outcome \in TopOutcomes :
       top' =
         IF outcome = "fail"
           THEN TopRaised(TopFailed(TopLog(top, Call("getLabels", <<>>, "hasLabels"))))
           ELSE AfterHasLabels(
                  TopLog(top, Call("getLabels", <<>>, "hasLabels")),
                  hasLabels(labels, {N_releaseStar, N_backportStar,
                                     T_triage, T_readyForReview}),
                  SmartDecision(HasLabel(labels, N_releaseStar),
                                HasLabel(labels, N_backportStar),
                                HasYamlValue[pr.body][T_release],
                                HasYamlValue[pr.body][T_backport],
                                pr.draft))
  /\ UNCHANGED <<labels, comments, nextId, checkRuns, pr, opts, inv, ninv,
                 ptext, pout, issueLabels, sd, peer>>

TopAddLabelsOutcomes ==
  {"ok"} \cup (IF TopCanFail THEN {"403", "422", "500"} ELSE {})

\* the labels of the target of an addLabels call of the run
TargetLabels(target) == IF target = "issue" THEN issueLabels ELSE labels

\* what follows a returned addLabels: the push onto result.labelsAdded and
\* result.actions when result.added is not empty, then the rest of execute;
\* stale detection handles one pull request and is the last step of execute
AfterTopAddLabels(t, added) ==
  LET pushed == IF Len(added) > 0
                  THEN [t EXCEPT !.labelsAdded = @ \o added, !.actions = @ + 1]
                  ELSE t
  IN  IF t.stage = "triage" THEN AfterTriage(pushed) ELSE TopReturned(pushed)

\* an error thrown by addLabels: the triage handlers throw it again and it
\* leaves execute; the loop of StaleDetection.execute catches it and goes on
TopThrow(t) ==
  IF t.stage = "triage" THEN TopRaised(t) ELSE TopReturned(t)

\* GitHubClient.addLabels of the triage rules and of markPRAsStale, up to the
\* answer of the request; a 422 goes on in _handle422Error
TopAddLabels ==
  /\ top.pc = "addLabels"
  /\ \E outcome \in (IF isDryRun(opts) THEN {"ok"} ELSE TopAddLabelsOutcomes) :
       LET t == TopLog(top, Call("addLabels", top.adding, top.stage))
       IN  IF isDryRun(opts) THEN
             /\ UNCHANGED <<labels, issueLabels>>
             /\ top' = AfterTopAddLabels(t, top.adding)
           ELSE IF outcome = "ok" THEN
             /\ labels' = IF top.target = "pr"
                            THEN issuesAddLabels(labels, top.adding) ELSE labels
             /\ issueLabels' = IF top.target = "issue"
                                 THEN issuesAddLabels(issueLabels, top.adding)
                                 ELSE issueLabels
             /\ top' = AfterTopAddLabels(t, top.adding)
           ELSE IF outcome = "422" THEN
             /\ UNCHANGED <<labels, issueLabels>>
             /\ top' = [TopFailed(t) EXCEPT !.pc = "handle422"]
           ELSE
             /\ UNCHANGED <<labels, issueLabels>>
             /\ top' = TopThrow(TopFailed(t))
  /\ UNCHANGED <<comments, nextId, checkRuns, pr, opts, inv, ninv, ptext, pout, sd, peer>>

\* GitHubClient._handle422Error for an addLabels of the run
TopHandle422 ==
  /\ top.pc = "handle422"
  /\ \E outcome \in TopOutcomes :
       LET t == TopLog(top, Call("getLabels", <<>>, "422"))
           currentLabels == TargetLabels(top.target)
           alreadyHasLabels == SelectSeq(top.adding, LAMBDA l : l \in currentLabels)
       IN  top' = IF outcome = "fail" THEN TopThrow(TopFailed(t))
                  ELSE IF Len(alreadyHasLabels) > 0 THEN AfterTopAddLabels(t, <<>>)
                  ELSE TopThrow(t)
  /\ UNCHANGED <<labels, comments, nextId, checkRuns, pr, opts, inv, ninv,
                 ptext, pout, issueLabels, sd, peer>>

\* GitHubClient.addLabels on its own: the labels asked for, the labels of the
\* issue and the mode are drawn, and the caller throws again what addLabels
\* throws
RequestedLabels ==
  {<<a>> : a \in {T_triage, T_readyForReview, T_stale}}
  \cup {<<a, b>> : a, b \in {T_triage, T_readyForReview, T_stale}}

InitAddLabels ==
  /\ labels = {}
  /\ issueLabels \in SUBSET {T_triage, T_readyForReview, T_stale}
  /\ comments = <<>>
  /\ nextId = 1
  /\ checkRuns = <<>>
  /\ pr = [body |-> <<>>, draft |-> FALSE]
  /\ opts \in {Options(<<>>, <<>>, FALSE, dry) : dry \in BOOLEAN}
  /\ inv = Fresh
  /\ ninv = 0
  /\ peer = NoPeer
  /\ ptext = <<>>
  /\ pout = NoParse
  /\ top \in {[ReadyRun EXCEPT !.pc = "addLabels", !.adding = requested,
                               !.target = "issue", !.stage = "triage",
                               !.event = Event("issues", "opened", "", ""),
                               !.issueLabelsBefore = issueLabels]
                 : requested \in RequestedLabels}
  /\ sd = NoStalePass

NextAddLabels ==
  \/ TopAddLabels
  \/ TopHandle422

SpecAddLabels == InitAddLabels /\ [][NextAddLabels]_vars

\* executeLabelAutomation: LabelAutomation.execute up to its first gateway
\* call after extractPRData; for a workflow_run event extractPRData looks the
\* pull request up by the head branch, for an event of another kind it
\* returns null
LA_Begin ==
  /\ top.pc = "la_begin"
  /\ LET e == top.event
         t == [top EXCEPT !.labelRun = "executed"]
     IN  \/ /\ e.kind = "pull_request"
            /\ StartCore(pr.body, pr.draft)
            /\ top' = [t EXCEPT !.pc = "la_wait"]
         \/ /\ e.kind \notin {"pull_request", "workflow_run"}
            /\ top' = AfterLabelAutomation(t)
            /\ UNCHANGED <<labels, comments, nextId, checkRuns, pr, inv, ninv>>
         \/ /\ e.kind = "workflow_run"
            /\ e.branch = "" \/ e.branch = "main"
            /\ top' = AfterLabelAutomation(t)
            /\ UNCHANGED <<labels, comments, nextId, checkRuns, pr, inv, ninv>>
         \/ /\ e.kind = "workflow_run"
            /\ ~(e.branch = "" \/ e.branch = "main")
            /\ \E outcome \in TopOutcomes :
                 LET c == TopLog(t, Call("findPRByBranch", <<>>, "label"))
                     found == findPRByBranch(e.branch)
                 IN  IF outcome = "fail" THEN
                       /\ top' = TopRaised(TopFailed(c))
                       /\ UNCHANGED <<labels, comments, nextId, checkRuns, pr, inv, ninv>>
                     ELSE IF found = {} \/ pr.state = "closed" THEN
                       /\ top' = AfterLabelAutomation(c)
                       /\ UNCHANGED <<labels, comments, nextId, checkRuns, pr, inv, ninv>>
                     ELSE
                       /\ StartCore(pr.body, pr.draft)
                       /\ top' = [c EXCEPT !.pc = "la_wait"]
  /\ UNCHANGED <<ptext, pout, opts, issueLabels, sd, peer>>

\* executeLabelAutomation after LabelAutomation.execute: its error is thrown
\* again, its result is merged into the result of the run
LA_Return ==
  /\ top.pc = "la_wait"
  /\ inv.pc = "done"
  /\ top' = IF inv.outcome = "raised" THEN TopRaised(top)
            ELSE AfterLabelAutomation([top EXCEPT !.pc = "la_done",
                                         !.labelsAdded = @ \o inv.labelsAdded,
                                         !.actions = @ + inv.actions])
  /\ UNCHANGED <<labels, comments, nextId, checkRuns, pr, opts, inv, ninv,
                 ptext, pout, issueLabels, sd, peer>>

\* StaleDetection.execute: listOpenPRs, then processPR of the open pull
\* request up to getLastActivityDate
StaleList ==
  /\ top.pc = "stale_list"
  /\ \E outcome \in TopOutcomes :
       LET t == TopLog(top, Call("listOpenPRs", <<>>, "stale"))
       IN  top' = IF outcome = "fail" THEN TopRaised(TopFailed(t))
                  ELSE IF pr.state # "open" THEN TopReturned(t)
                  ELSE IF pr.draft THEN TopReturned(t)
                  ELSE IF T_stale \in labels THEN TopReturned(t)
                  ELSE [t EXCEPT !.pc = "stale_activity"]
  /\ UNCHANGED <<labels, comments, nextId, checkRuns, pr, opts, inv, ninv,
                 ptext, pout, issueLabels, sd, peer>>

\* processPR: getLastActivityDate, whose reads never throw, and the
\* comparison of the time since the last activity with the threshold
StaleActivity ==
  /\ top.pc = "stale_activity"
  /\ \E inactive \in BOOLEAN :
       LET t == TopLog(top, Call("getLastActivityDate", <<>>, "stale"))
       IN  top' = IF inactive
                    THEN [t EXCEPT !.pc = "addLabels", !.adding = <<T_stale>>,
                                   !.target = "pr", !.stage = "stale"]
                    ELSE TopReturned(t)
  /\ UNCHANGED <<labels, comments, nextId, checkRuns, pr, opts, inv, ninv,
                 ptext, pout, issueLabels, sd, peer>>

NextRun ==
  \/ \E e \in RunEvents : TopStart(e)
  \/ FindPR
  \/ PR_GetLabels
  \/ PR_HasLabels
  \/ TopAddLabels
  \/ TopHandle422
  \/ LA_Begin
  \/ LA_Return
  \/ StaleList
  \/ StaleActivity
  \/ CleanupList
  \/ CleanupDelete
  \/ CreateCheckRun
  \/ RB_GetLabels
  \/ HV_UpdateCheckRun
  \/ HV_CreateComment
  \/ RB_AddLabels
  \/ FB_AddLabels
  \/ Handle422
  \/ SuccessUpdate
  \/ CatchUpdate
  \/ FB_GetLabels

SpecRun == InitRun /\ [][NextRun]_vars

(***************************************************************************)
(* The lookup of the pull request of a workflow run among the pull         *)
(* requests of the repository, which may hold several with one head branch *)
(***************************************************************************)
\* the latest updated_at of the lookup's inputs
MaxUpdated == 3

\* the pull requests the repository may hold: PR i has number i
PullStates == {"open", "closed"}
PullsOfLen(n) ==
  [1..n -> [head : {FeatureBranch, "other"}, state : PullStates,
            draft : BOOLEAN, updated_at : 1..MaxUpdated]]
PullLists ==
  {[i \in 1..Len(ps) |-> [number |-> i, head |-> ps[i].head, state |-> ps[i].state,
                           draft |-> ps[i].draft, updated_at |-> ps[i].updated_at]]
     : ps \in PullsOfLen(1) \cup PullsOfLen(2)}

LookupEvents ==
  { Event("workflow_run", "completed", "failure", FeatureBranch),
    Event("workflow_run", "completed", "success", "main"),
    Event("workflow_run", "completed", "success", FeatureBranch) }

\* pulls.list with head, state 'all', sort 'updated', direction 'desc': the
\* pull requests that can come first in the answer (those of the branch
\* updated last; the order among equal dates is the server's)
pullsListFirst(pulls, branchName) ==
  LET ofBranch == {i \in 1..Len(pulls) : pulls[i].head = branchName}
  IN  {pulls[i] : i \in {j \in ofBranch :
                           \A k \in ofBranch : pulls[k].updated_at <= pulls[j].updated_at}}

\* GitHubClient.findPRByBranch on a repository: prs[0] or null, as <<p>> or <<>>
findPRByBranchAnswers(pulls, branchName) ==
  IF pullsListFirst(pulls, branchName) = {} THEN {<<>>}
  ELSE {<<p>> : p \in pullsListFirst(pulls, branchName)}

\* handleWorkflowRunEvent: the pull request handed to handlePullRequestEvent
\* and not skipped there as a draft, for the answer of findPRByBranch
TriagePR(e, found) ==
  IF e.conclusion # "success" THEN <<>>
  ELSE IF e.branch = "" \/ e.branch = "main" THEN <<>>
  ELSE IF found = <<>> THEN <<>>
  ELSE IF found[1].state = "closed" THEN <<>>
  ELSE IF found[1].draft THEN <<>>
  ELSE found

\* extractPRData for a workflow_run event and the draft check of execute:
\* the pull request the label automation processes
LabelPR(e, found) ==
  IF e.branch = "" \/ e.branch = "main" THEN <<>>
  ELSE IF found = <<>> \/ found[1].state = "closed" THEN <<>>
  ELSE IF found[1].draft THEN <<>>
  ELSE found

NoLookup == [pulls |-> <<>>, event |-> NoEvent, triage |-> <<>>, label |-> <<>>]

InitLookup ==
  /\ pout = NoLookup
  /\ ptext = <<>>
  /\ opts = Options(<<V15, V16>>, <<V14>>, TRUE, FALSE)
  /\ labels = {}
  /\ comments = <<>>
  /\ nextId = 1
  /\ checkRuns = <<>>
  /\ pr = [body |-> <<>>, draft |-> FALSE]
  /\ inv = Idle
  /\ top = NoRun
  /\ issueLabels = {}
  /\ sd = NoStalePass
  /\ ninv = 0
  /\ peer = NoPeer

\* one run for a workflow_run event: the lookup of handleWorkflowRunEvent
\* and the lookup of extractPRData, each a request of its own
LookupRun ==
  /\ pout = NoLookup
  /\ \E pulls \in PullLists, e \in LookupEvents :
       \E foundByTriage \in findPRByBranchAnswers(pulls, e.branch),
          foundByLabel \in findPRByBranchAnswers(pulls, e.branch) :
         pout' = [pulls |-> pulls, event |-> e,
                  triage |-> TriagePR(e, foundByTriage),
                  label |-> LabelPR(e, foundByLabel)]
  /\ UNCHANGED <<labels, comments, nextId, checkRuns, pr, opts, inv, ninv, ptext,
                 top, issueLabels, sd, peer>>

SpecLookup == InitLookup /\ [][LookupRun]_vars

(***************************************************************************)
(* Error comments with their text: handleValidationErrors,                 *)
(* handleFeatureBranchValidationError and cleanupWorkflowComments          *)
(***************************************************************************)
\* comments of the pull request in one behaviour
MaxComments == 3

\* the characters U+1F6A8 and U+274C, one element of a text each
SIREN == "U+1F6A8"
CROSS == "U+274C"

\* the identifiers passed to cleanupWorkflowComments
T_identifierRb ==
  <<SIREN,SP,"Y","A","M","L",SP,"V","a","l","i","d","a","t","i","o","n",SP,
    "E","r","r","o","r",":",SP,"r","e","l","e","a","s","e",SP,"a","n","d",
    SP,"b","a","c","k","p","o","r","t">>
T_identifierFb ==
  <<SIREN,SP,"Y","A","M","L",SP,"V","a","l","i","d","a","t","i","o","n",SP,
    "E","r","r","o","r",":",SP,"f","e","a","t","u","r","e",SP,"b","r","a",
    "n","c","h">>
Identifier(d) == IF d = "rb" THEN T_identifierRb ELSE T_identifierFb

T_invalid ==
  <<CROSS,SP,"I","n","v","a","l","i","d",SP>>
T_value ==
  <<SP,"v","a","l","u","e">>
T_acceptedValues ==
  <<".",SP,"A","c","c","e","p","t","e","d",SP,"v","a","l","u","e","s",":",
    SP>>
T_caseInsensitive ==
  <<SP,"(","c","a","s","e","-","i","n","s","e","n","s","i","t","i","v","e",
    ",",SP,"w","i","t","h",SP,"o","p","t","i","o","n","a","l",SP,"q","u",
    "o","t","e","s",")">>
T_howToFix ==
  <<"#","#","#",SP,"H","o","w",SP,"t","o",SP,"f","i","x",":",NL>>
CategoryText(category) ==
  IF category = "release" THEN T_release
  ELSE IF category = "backport" THEN T_backport
  ELSE T_needs_feature_branch

\* the message of a validation error, with the rejected values in quotes
ErrorMessage(error) ==
  T_invalid \o CategoryText(error.category) \o T_value
    \o (IF error.plural THEN <<"s">> ELSE <<>>) \o <<":", SP>>
    \o Join([i \in 1..Len(error.invalid) |-> Quoted(DQ, error.invalid[i])], <<",", SP>>)
    \o T_acceptedValues \o Join(error.accepted, <<",", SP>>)
    \o (IF error.category = "needs_feature_branch" THEN T_caseInsensitive ELSE <<>>)

\* errorComment of handleValidationErrors and of
\* handleFeatureBranchValidationError up to the line '### How to fix:'; the
\* lines that follow are the same in every comment of the domain
ErrorCommentBody(d, errors) ==
  <<"#", "#", SP>> \o Identifier(d) \o <<NL, NL>>
    \o Join([i \in 1..Len(errors) |-> <<"-", SP>> \o ErrorMessage(errors[i])], <<NL>>)
    \o <<NL, NL>> \o T_howToFix

\* comment.body.includes(identifier)
CommentIncludes(comment, identifier) == Includes(comment.body, identifier)

\* YAML blocks whose field value is rejected: an unknown version, a word
\* that is no boolean, and values that hold the text of an identifier
RejectedYamls ==
  { FieldLine(T_release, <<SP>> \o V99),
    FieldLine(T_release, <<SP>> \o T_identifierFb),
    FieldLine(T_needs_feature_branch, <<SP>> \o T_maybe),
    FieldLine(T_needs_feature_branch, <<SP>> \o T_identifierRb) }

\* comments written by a user: a greeting, and a reply that quotes the
\* heading of an error comment
UserBodies ==
  { <<"h", "i">>,
    <<">", SP, "#", "#", SP>> \o T_identifierRb }

NoCleanup == [deleted |-> <<>>]

InitComments ==
  /\ comments = <<>>
  /\ nextId = 1
  /\ pout = NoCleanup
  /\ ptext = <<>>
  /\ opts = Options(<<V15, V16>>, <<V14>>, TRUE, FALSE)
  /\ labels = {}
  /\ checkRuns = <<>>
  /\ pr = [body |-> <<>>, draft |-> FALSE]
  /\ inv = Idle
  /\ top = NoRun
  /\ issueLabels = {}
  /\ sd = NoStalePass
  /\ ninv = 0
  /\ peer = NoPeer

UnchangedByComments ==
  UNCHANGED <<labels, checkRuns, pr, opts, inv, ninv, ptext, top, issueLabels,
              sd, peer>>

\* a user writes a comment on the pull request
UserComments ==
  /\ nextId <= MaxComments
  /\ \E body \in UserBodies :
       comments' = Append(comments, [id |-> nextId, domain |-> "user", body |-> body])
  /\ nextId' = nextId + 1
  /\ UNCHANGED pout
  /\ UnchangedByComments

\* processReleaseBackportLabeling on a pull request without labels whose
\* YAML block has rejected values: createComment of handleValidationErrors
PostReleaseBackportError ==
  /\ nextId <= MaxComments
  /\ \E yaml \in RejectedYamls :
       LET d == ReleaseBackportDecision(opts, detectEnabledFeatures(opts),
                                       Scalar(yaml), {})
       IN  /\ Len(d.validationErrors) > 0
           /\ comments' = Append(comments,
                [id |-> nextId, domain |-> "rb",
                 body |-> ErrorCommentBody("rb", d.validationErrors)])
  /\ nextId' = nextId + 1
  /\ UNCHANGED pout
  /\ UnchangedByComments

\* processFeatureBranchLabeling on a pull request without the label whose
\* needs_feature_branch is no boolean: createComment of
\* handleFeatureBranchValidationError
PostFeatureBranchError ==
  /\ nextId <= MaxComments
  /\ \E yaml \in RejectedYamls :
       LET featureBranchValue == parseYamlValue(Scalar(yaml), T_needs_feature_branch)
           lowerValue == ToLowerCase(featureBranchValue.v)
       IN  /\ Truthy(featureBranchValue) /\ ~IsArray(featureBranchValue)
           /\ lowerValue \notin {T_true, T_false, <<>>}
           /\ comments' = Append(comments,
                [id |-> nextId, domain |-> "fb",
                 body |-> ErrorCommentBody("fb",
                            <<[category |-> "needs_feature_branch", plural |-> FALSE,
                               invalid |-> <<featureBranchValue.v>>,
                               accepted |-> <<T_true, T_false>>]>>)])
  /\ nextId' = nextId + 1
  /\ UNCHANGED pout
  /\ UnchangedByComments

\* cleanupWorkflowComments(prNumber, identifier): the comments whose body
\* includes the identifier are deleted in their order; a deleteComment that
\* fails ends the loop
cleanupWorkflowComments ==
  /\ \E d \in {"rb", "fb"} :
       LET workflowComments ==
             SelectSeq(comments, LAMBDA c : CommentIncludes(c, Identifier(d)))
       IN  \E n \in 0..Len(workflowComments) :
             LET gone == {workflowComments[i].id : i \in 1..n}
             IN  /\ comments' = SelectSeq(comments, LAMBDA c : c.id \notin gone)
                 /\ pout' = [deleted |-> pout.deleted \o
                              [i \in 1..n |-> [comment |-> workflowComments[i],
                                               by |-> d]]]
  /\ UNCHANGED nextId
  /\ UnchangedByComments

NextComments ==
  \/ UserComments
  \/ PostReleaseBackportError
  \/ PostFeatureBranchError
  \/ cleanupWorkflowComments

SpecComments == InitComments /\ [][NextComments]_vars

(***************************************************************************)
(* StaleDetection.execute over the list of open pull requests, with the    *)
(* activity timestamps in milliseconds                                     *)
(***************************************************************************)
\* the milliseconds of one day, as the constructor computes them
Day == 24 * 60 * 60 * 1000

\* the time execute reads as now
Now == 3 * Day

\* this.staleDays of the constructor: getStaleDays() || 1
StaleDaysOf(o) == IF HasStaleDays(o) THEN o.staleDays[1] ELSE 1

\* this.staleThresholdMs of the constructor
staleThresholdMs(o) == StaleDaysOf(o) * Day

\* the reads of getLastActivityDate, in the order it makes them; the last is
\* the second getPR, made for created_at
Reads ==
  {"getPR", "listPRCommits", "listComments", "listPRReviewComments",
   "listPRReviews", "listTimelineEvents", "getPR:created_at"}

\* a date that may be missing is <<>> or <<t>>
Dated(items) ==
  LET present == SelectSeq(items, LAMBDA d : d # <<>>)
  IN  [i \in 1..Len(present) |-> present[i][1]]

\* the created_at of every event of a timeline
LabelEventDates_all(timeline) ==
  [i \in 1..Len(timeline) |-> timeline[i].created_at]

\* the created_at of the labeled and unlabeled events of a timeline
LabelEventDates(timeline) ==
  LET kept == SelectSeq(timeline, LAMBDA e : e.event \in {"labeled", "unlabeled"})
  IN  [i \in 1..Len(kept) |-> kept[i].created_at]

\* the activities array of getLastActivityDate, a read in failed answering
\* nothing
ActivitiesOf(p, failed) ==
  (IF "getPR" \in failed THEN <<>> ELSE <<p.updated_at>>)
  \o (IF "listPRCommits" \in failed THEN <<>> ELSE Dated(p.commits))
  \o (IF "listComments" \in failed THEN <<>> ELSE p.comments)
  \o (IF "listPRReviewComments" \in failed THEN <<>> ELSE p.reviewComments)
  \o (IF "listPRReviews" \in failed THEN <<>> ELSE Dated(p.reviews))
  \o (IF "listTimelineEvents" \in failed THEN <<>> ELSE LabelEventDates(p.timeline))

\* the date returned from the activities gathered
LastActivityFrom(activities, p, failed, clock) ==
  IF Len(activities) > 0 THEN Max(Range(activities))
  ELSE IF "getPR:created_at" \in failed THEN clock
  ELSE p.created_at

\* StaleDetection.getLastActivityDate; clock is the current time when the
\* last fallback is taken
getLastActivityDate(p, failed, clock) ==
  LastActivityFrom(ActivitiesOf(p, failed), p, failed, clock)

Signals(created, updated, commits, cs, reviewComments, reviews, timeline) ==
  [created_at |-> created, updated_at |-> updated, commits |-> commits,
   comments |-> cs, reviewComments |-> reviewComments, reviews |-> reviews,
   timeline |-> timeline]

TimelineEvent(event, created) == [event |-> event, created_at |-> created]

SignalSets ==
  { Signals(Now - 3 * Day, Now - Day, <<>>, <<>>, <<>>, <<>>, <<>>),
    Signals(Now - 3 * Day, Now - Day - 1, << <<Now - 2 * Day>>, <<>> >>, <<>>, <<>>,
            << <<>> >>, <<>>),
    Signals(Now - 3 * Day, Now - 2 * Day - 1, <<>>, <<Now - 2 * Day>>,
            <<Now - 2 * Day - 1>>, << <<Now - 2 * Day - 5>> >>,
            <<TimelineEvent("labeled", Now - 2 * Day - 2)>>),
    Signals(Now - 3 * Day, Now - 2 * Day - 1, <<>>, <<>>, <<>>, <<>>,
            <<TimelineEvent("assigned", Now - 5),
              TimelineEvent("unlabeled", Now - Day - 1)>>),
    Signals(Now - Day - 1, Now - 10, <<>>, <<>>, <<>>, <<>>, <<>>) }

OpenPR(draft, ls, signals) == [draft |-> draft, labels |-> ls, signals |-> signals]

\* the signals of the draft and of the labelled pull requests
OlderSignals ==
  Signals(Now - 3 * Day, Now - Day - 1, <<>>, <<>>, <<>>, <<>>, <<>>)

OpenPRs ==
  {OpenPR(FALSE, {}, g) : g \in SignalSets}
    \cup { OpenPR(TRUE, {}, OlderSignals),
           OpenPR(FALSE, {T_stale}, OlderSignals),
           OpenPR(FALSE, {T_triage}, OlderSignals) }

\* the open pull requests of the repository, in the order listOpenPRs
\* answers them; the number of a pull request is its position
OpenPRLists ==
  {<<>>} \cup {<<a>> : a \in OpenPRs} \cup {<<a, b>> : a \in OpenPRs, b \in OpenPRs}

StaleOptionSets ==
  { Options(<<>>, <<>>, FALSE, FALSE),
    WithStaleDays(Options(<<>>, <<>>, FALSE, FALSE), 1),
    WithStaleDays(Options(<<>>, <<>>, FALSE, FALSE), 2),
    WithStaleDays(Options(<<>>, <<>>, FALSE, TRUE), 1) }

ReadyPass(prs) ==
  [pc |-> "ready", prs |-> prs, pullRequests |-> <<>>, i |-> 0,
   outcome |-> "none", labelsAdded |-> <<>>, actions |-> 0,
   processedPRs |-> 0, stalePRsFound |-> 0, calls |-> NoCall, fails |-> 0,
   seen |-> <<>>, caught |-> {}]

InitStale ==
  /\ sd \in {ReadyPass(prs) : prs \in OpenPRLists}
  /\ opts \in StaleOptionSets
  /\ labels = {}
  /\ issueLabels = {}
  /\ comments = <<>>
  /\ nextId = 1
  /\ checkRuns = <<>>
  /\ pr = [body |-> <<>>, draft |-> FALSE]
  /\ inv = Fresh
  /\ ninv = 0
  /\ peer = NoPeer
  /\ ptext = <<>>
  /\ pout = NoParse
  /\ top = NoRun

\* getLastActivityDate on its own: the data of a pull request, the reads that
\* fail and the clock are drawn, then the function is applied once
InitActivity ==
  /\ sd \in [pc : {"activity"}, signals : SignalSets, failed : SUBSET Reads,
              clock : {Now, Now + 1}, out : {<<>>}]
  /\ opts = Options(<<>>, <<>>, FALSE, FALSE)
  /\ labels = {}
  /\ issueLabels = {}
  /\ comments = <<>>
  /\ nextId = 1
  /\ checkRuns = <<>>
  /\ pr = [body |-> <<>>, draft |-> FALSE]
  /\ inv = Fresh
  /\ ninv = 0
  /\ peer = NoPeer
  /\ ptext = <<>>
  /\ pout = NoParse
  /\ top = NoRun

ReadActivity ==
  /\ sd.pc = "activity"
  /\ sd' = [sd EXCEPT !.pc = "answered",
                      !.out = <<getLastActivityDate(sd.signals, sd.failed, sd.clock)>>]
  /\ UNCHANGED <<labels, comments, nextId, checkRuns, pr, opts, inv, ninv, ptext,
                 pout, top, issueLabels, peer>>

SpecActivity == InitActivity /\ [][ReadActivity]_vars

StaleCanFail == sd.fails < MaxFailures
StaleOutcomes == {"ok"} \cup (IF StaleCanFail THEN {"fail"} ELSE {})
StaleAddLabelsOutcomes ==
  {"ok"} \cup (IF StaleCanFail THEN {"403", "422", "500"} ELSE {})

StaleLog(s, c) == [s EXCEPT !.calls = Append(@, c)]
StaleFailed(s) == [s EXCEPT !.fails = @ + 1]

\* the loop of execute goes on to the next pull request listed, or execute
\* returns its result after the last
NextPR(s) ==
  IF s.i < Len(s.pullRequests) THEN [s EXCEPT !.pc = "process", !.i = @ + 1]
  ELSE [s EXCEPT !.pc = "done", !.outcome = "returned"]

\* a loop without the catch block: the error of processPR leaves execute
Caught_rethrow(s) ==
  [s EXCEPT !.caught = @ \cup {s.i}, !.pc = "done", !.outcome = "raised"]

\* the catch block in the loop of execute: the error of processPR is logged
Caught(s) == NextPR([s EXCEPT !.caught = @ \cup {s.i}])

UnchangedByStale ==
  UNCHANGED <<labels, comments, nextId, checkRuns, pr, opts, inv, ninv, ptext,
              pout, top, issueLabels, peer>>

\* execute: listOpenPRs, whose error leaves execute
SD_List ==
  /\ sd.pc = "ready"
  /\ \E outcome \in StaleOutcomes :
       LET s == StaleLog(sd, Call("listOpenPRs", <<>>, 0))
       IN  sd' = IF outcome = "fail"
                   THEN [StaleFailed(s) EXCEPT !.pc = "done", !.outcome = "raised"]
                   ELSE NextPR([s EXCEPT !.pullRequests = sd.prs,
                                         !.processedPRs = Len(sd.prs)])
  /\ UnchangedByStale

\* a comparison that also holds at the threshold
IsStale_atThreshold(o, lastActivity) == Now - lastActivity >= staleThresholdMs(o)

\* the comparison of processPR
IsStale(o, lastActivity) == Now - lastActivity > staleThresholdMs(o)

\* processPR after getLastActivityDate has answered
AfterLastActivity(s, lastActivity) ==
  IF IsStale(opts, lastActivity)
    THEN [s EXCEPT !.pc = "addLabels",
                   !.seen = Append(@, [number |-> s.i, lastActivity |-> lastActivity])]
    ELSE NextPR([s EXCEPT !.seen = Append(@, [number |-> s.i,
                                                lastActivity |-> lastActivity])])

\* a processPR that skips drafts only
SkippedByStale_draftsOnly(p) == p.draft

\* the early returns of processPR: the pull request is a draft, or the list
\* shows it with the stale label
SkippedByStale(p) == p.draft \/ T_stale \in p.labels

\* processPR of the pull request at position i of the list, up to the
\* addLabels of markPRAsStale; the reads of getLastActivityDate that fail
\* are any subset of its reads
SD_Process ==
  /\ sd.pc = "process"
  /\ LET p == sd.pullRequests[sd.i]
     IN  IF SkippedByStale(p) THEN sd' = NextPR(sd)
         ELSE \E failed \in SUBSET Reads, clock \in {Now, Now + 1} :
                sd' = AfterLastActivity(
                        StaleLog(sd, Call("getLastActivityDate", <<>>, sd.i)),
                        getLastActivityDate(p.signals, failed, clock))
  /\ UnchangedByStale

\* markPRAsStale after addLabels has returned
AfterStaleAddLabels(s, added) ==
  NextPR(IF Len(added) > 0
           THEN [s EXCEPT !.labelsAdded = @ \o added, !.actions = @ + 1,
                          !.stalePRsFound = @ + 1]
           ELSE s)

\* markPRAsStale: addLabels(prNumber, ['stale']) up to the answer of the
\* request; its error is thrown again and caught by the loop of execute
SD_AddLabels ==
  /\ sd.pc = "addLabels"
  /\ \E outcome \in (IF isDryRun(opts) THEN {"ok"} ELSE StaleAddLabelsOutcomes) :
       LET s == StaleLog(sd, Call("addLabels", <<T_stale>>, sd.i))
       IN  sd' =
             IF isDryRun(opts) THEN AfterStaleAddLabels(s, <<T_stale>>)
             ELSE IF outcome = "ok"
               THEN AfterStaleAddLabels(
                      [s EXCEPT !.prs[sd.i].labels = @ \cup {T_stale}], <<T_stale>>)
             ELSE IF outcome = "422" THEN [StaleFailed(s) EXCEPT !.pc = "handle422"]
             ELSE Caught(StaleFailed(s))
  /\ UnchangedByStale

\* GitHubClient._handle422Error for the addLabels of markPRAsStale
SD_Handle422 ==
  /\ sd.pc = "handle422"
  /\ \E outcome \in StaleOutcomes :
       LET s == StaleLog(sd, Call("getLabels", <<>>, sd.i))
       IN  sd' = IF outcome = "fail" THEN Caught(StaleFailed(s))
                 ELSE IF T_stale \in sd.prs[sd.i].labels
                   THEN AfterStaleAddLabels(s, <<>>)
                 ELSE Caught(s)
  /\ UnchangedByStale

NextStale ==
  \/ SD_List
  \/ SD_Process
  \/ SD_AddLabels
  \/ SD_Handle422

SpecStale == InitStale /\ [][NextStale]_vars

(***************************************************************************)
(* Vocabulary of the properties                                            *)
(***************************************************************************)
Done == inv.pc = "done"

\* every gateway call of the invocation succeeded and had its effect
AllCallsEffective == inv.fails = 0 /\ ~isDryRun(opts)

CallIndices(op, tag) ==
  {i \in 1..Len(inv.calls) : inv.calls[i].op = op /\ inv.calls[i].tag = tag}

Called(op, tag) == CallIndices(op, tag) # {}

\* the elements of a list of labels that carry a prefix, in their order
WithPrefix(ls, prefix) == SelectSeq(ls, LAMBDA l : StartsWith(l, prefix))

LabelsWithPrefix(S, prefix) == {l \in S : StartsWith(l, prefix)}

ErrorsOf(category) ==
  SelectSeq(inv.validationErrors, LAMBDA e : e.category = category)

\* the check runs of a name that are completed with a conclusion
CompletedRuns(name, conclusion) ==
  {i \in 1..Len(checkRuns) :
     /\ checkRuns[i].name = name
     /\ checkRuns[i].status = "completed"
     /\ checkRuns[i].conclusion = conclusion}

CommentsOf(cs, domain) == {i \in 1..Len(cs) : cs[i].domain = domain}

\* the values the release and backport fields of the YAML block denote
releaseValue == parseYamlValue(inv.yaml, T_release)
backportValue == parseYamlValue(inv.yaml, T_backport)

(***************************************************************************)
(* C1                                                                      *)
(***************************************************************************)
\* C1: manual-label precedence. Once the release/backport rule has decided,
\* a category whose prefix is carried by a label of the pull request has no
\* proposed label and no validation error, whatever its YAML value and
\* whatever the allowlist.
C1_ManualLabelPrecedence ==
  inv.decided =>
    /\ SomeStartsWith(inv.labelsBefore, T_releaseDash) =>
         /\ WithPrefix(inv.labelsToAdd, T_releaseDash) = <<>>
         /\ ErrorsOf("release") = <<>>
    /\ SomeStartsWith(inv.labelsBefore, T_backportDash) =>
         /\ WithPrefix(inv.labelsToAdd, T_backportDash) = <<>>
         /\ ErrorsOf("backport") = <<>>

\* a release label is on the pull request and the YAML release value is an
\* array with an element outside the allowlist; the rule has decided
C1_Witness ==
  /\ inv.decided
  /\ inv.features.releaseLabeling
  /\ SomeStartsWith(inv.labelsBefore, T_releaseDash)
  /\ IsArray(releaseValue)
  /\ \E i \in 1..Len(releaseValue.vs) :
       ~SeqIncludes(getAcceptedReleases(opts), releaseValue.vs[i])

(***************************************************************************)
(* C2                                                                      *)
(***************************************************************************)
\* C2: fail-closed per invocation. When the release or the backport field
\* yields a validation error, the invocation never calls addLabels for the
\* release/backport rule and the release and backport labels of the pull
\* request stay as they were, also when the other category is valid; when
\* the gateway calls take effect, the invocation ends with the check run
\* completed with conclusion failure and one more release/backport error
\* comment.
C2_FailClosed ==
  (inv.decided /\ Len(inv.validationErrors) > 0) =>
    /\ ~Called("addLabels", "rb")
    /\ LabelsWithPrefix(labels, T_releaseDash) = LabelsWithPrefix(inv.labelsBefore, T_releaseDash)
    /\ LabelsWithPrefix(labels, T_backportDash) = LabelsWithPrefix(inv.labelsBefore, T_backportDash)
    /\ (Done /\ AllCallsEffective) =>
         /\ Cardinality(CompletedRuns(CheckRunName("rb"), "failure")) = 1
         /\ CompletedRuns(CheckRunName("rb"), "success") = {}
         /\ Called("createComment", "rb")
         /\ Cardinality(CommentsOf(comments, "rb"))
              = Cardinality(CommentsOf(inv.commentsBefore, "rb")) + 1

\* the release value is rejected while the backport value is accepted and
\* proposed; the invocation has ended with every call effective
C2_Witness ==
  /\ Done /\ AllCallsEffective
  /\ inv.decided
  /\ ErrorsOf("release") # <<>>
  /\ ErrorsOf("backport") = <<>>
  /\ WithPrefix(inv.labelsToAdd, T_backportDash) # <<>>

(***************************************************************************)
(* C3                                                                      *)
(***************************************************************************)
\* the elements of an array value outside an allowlist, in input order
Rejected(value, accepted) ==
  SelectSeq(value.vs, LAMBDA v : ~SeqIncludes(accepted, v))

\* the all-or-nothing policy for one category whose field is an array
AllOrNothing(value, accepted, category, prefix) ==
  IF Rejected(value, accepted) # <<>>
    THEN /\ Len(ErrorsOf(category)) = 1
         /\ ErrorsOf(category)[1].invalid = Rejected(value, accepted)
         /\ WithPrefix(inv.labelsToAdd, prefix) = <<>>
    ELSE /\ ErrorsOf(category) = <<>>
         /\ WithPrefix(inv.labelsToAdd, prefix)
              = [i \in 1..Len(value.vs) |-> prefix \o value.vs[i]]

\* C3: all-or-nothing arrays. For an array-valued release or backport field
\* on a pull request without a label of that prefix: with an element outside
\* the allowlist there is exactly one error of the category, listing exactly
\* the rejected elements in input order, and no label of the category is
\* proposed; with no such element one label is proposed per element, in
\* input order, duplicates kept.
C3_AllOrNothingArrays ==
  inv.decided =>
    /\ (/\ inv.features.releaseLabeling
        /\ ~SomeStartsWith(inv.labelsBefore, T_releaseDash)
        /\ IsArray(releaseValue))
         => AllOrNothing(releaseValue, getAcceptedReleases(opts), "release", T_releaseDash)
    /\ (/\ inv.features.backportLabeling
        /\ ~SomeStartsWith(inv.labelsBefore, T_backportDash)
        /\ IsArray(backportValue))
         => AllOrNothing(backportValue, getAcceptedBackports(opts), "backport", T_backportDash)

\* the release array has two rejected elements and an accepted one
C3_Witness ==
  /\ inv.decided
  /\ inv.features.releaseLabeling
  /\ ~SomeStartsWith(inv.labelsBefore, T_releaseDash)
  /\ IsArray(releaseValue)
  /\ Len(Rejected(releaseValue, getAcceptedReleases(opts))) = 2
  /\ Len(releaseValue.vs) = 3

(***************************************************************************)
(* C4                                                                      *)
(***************************************************************************)
ErrorDomains == {"rb", "fb"}

\* C4: no duplicate error comments. The pull request carries at most one
\* error comment per validation domain, and an invocation that reports a
\* validation error of a domain that already has an error comment leaves
\* the number of error comments of that domain as it was.
C4_NoDuplicateErrorComments ==
  \A d \in ErrorDomains :
    /\ Cardinality(CommentsOf(comments, d)) <= 1
    /\ (/\ Done
        /\ Called("createComment", d)
        /\ CommentsOf(inv.commentsBefore, d) # {})
         => Cardinality(CommentsOf(comments, d))
              = Cardinality(CommentsOf(inv.commentsBefore, d))

(***************************************************************************)
(* C5                                                                      *)
(***************************************************************************)
\* the second of two successive invocations on the same body, the first of
\* which started on a pull request without release and backport labels
SecondOfTwo ==
  /\ inv.decided
  /\ inv.prev.valid
  /\ ~SomeStartsWith(inv.prev.labelsBefore, T_releaseDash)
  /\ ~SomeStartsWith(inv.prev.labelsBefore, T_backportDash)

\* C5 as stated: the second invocation proposes the labels the first
\* proposed.
C5_SameProposal ==
  SecondOfTwo => Range(inv.labelsToAdd) = Range(inv.prev.proposed)

\* what the second invocation proposes for a category
SecondProposal(prefix) ==
  IF SomeStartsWith(inv.labelsBefore, prefix)
    THEN <<>>
    ELSE WithPrefix(inv.prev.proposed, prefix)

\* C5: idempotent proposal. The second of two successive invocations with
\* unchanged body and allowlists proposes, for each category, the labels the
\* first proposed when the pull request carries no label of the category
\* after the first invocation, and no label when it carries one (the label
\* the first invocation added counts).
C5_SameProposalUnlessLabelled ==
  SecondOfTwo =>
    /\ WithPrefix(inv.labelsToAdd, T_releaseDash) = SecondProposal(T_releaseDash)
    /\ WithPrefix(inv.labelsToAdd, T_backportDash) = SecondProposal(T_backportDash)

\* the first invocation proposed and added a label, the second proposes none
C5_Witness ==
  /\ SecondOfTwo
  /\ inv.prev.proposed # <<>>
  /\ Range(inv.prev.proposed) \subseteq inv.labelsBefore
  /\ inv.labelsToAdd = <<>>

(***************************************************************************)
(* C6                                                                      *)
(***************************************************************************)
\* C6: cleanup precedes labelling. In every invocation, each addLabels call
\* of a validation domain comes after a cleanup of the error comments of
\* that domain (the listComments call that opens the cleanup).
C6_CleanupPrecedesLabelling ==
  \A d \in ErrorDomains :
    \A i \in CallIndices("addLabels", d) :
      \E j \in CallIndices("listComments", d) : j < i

(***************************************************************************)
(* C7                                                                      *)
(***************************************************************************)
IsScalar(value) == Truthy(value) /\ ~IsArray(value)

\* an ended invocation, every call effective, on a pull request without
\* release and backport labels whose YAML block has an accepted scalar
\* release value and an accepted scalar backport value
SuccessScenario ==
  /\ Done /\ AllCallsEffective
  /\ inv.decided
  /\ ~SomeStartsWith(inv.labelsBefore, T_releaseDash)
  /\ ~SomeStartsWith(inv.labelsBefore, T_backportDash)
  /\ IsScalar(releaseValue)
  /\ SeqIncludes(getAcceptedReleases(opts), releaseValue.v)
  /\ IsScalar(backportValue)
  /\ SeqIncludes(getAcceptedBackports(opts), backportValue.v)

\* both labels are on the pull request, added by one addLabels call, and no
\* release/backport error comment is created
BothLabelsAdded ==
  /\ (T_releaseDash \o releaseValue.v) \in labels
  /\ (T_backportDash \o backportValue.v) \in labels
  /\ Cardinality(CallIndices("addLabels", "rb")) = 1
  /\ \A i \in CallIndices("addLabels", "rb") :
       inv.calls[i].labels
         = <<T_releaseDash \o releaseValue.v, T_backportDash \o backportValue.v>>
  /\ ~Called("createComment", "rb")
  /\ CommentsOf(comments, "rb") = {}

\* C7 as stated: both labels are added, no error comment is created and
\* there is a successful check run for the release category and another one
\* for the backport category.
C7_SuccessRunPerCategory ==
  SuccessScenario =>
    /\ BothLabelsAdded
    /\ Cardinality(CompletedRuns(CheckRunName("rb"), "success")) = 2

\* C7: success scenario. Both labels are added by one call, no error comment
\* is created, and exactly one check run, the one of the release/backport
\* rule, is completed with success for the two categories together.
C7_SuccessScenario ==
  SuccessScenario =>
    /\ BothLabelsAdded
    /\ Cardinality(CompletedRuns(CheckRunName("rb"), "success")) = 1
    /\ \A i \in CompletedRuns(CheckRunName("rb"), "success") :
         checkRuns[i].title = "YAML Validation Successful"
    /\ CompletedRuns(CheckRunName("rb"), "failure") = {}

C7_Witness ==
  /\ SuccessScenario
  /\ inv.labelsAdded # <<>>

(***************************************************************************)
(* C8                                                                      *)
(***************************************************************************)
featureBranchField == parseYamlValue(inv.yaml, T_needs_feature_branch)

\* the feature-branch rule runs to its end on a pull request that carries
\* the feature-branch label
LabelPresentRun ==
  /\ Done /\ AllCallsEffective
  /\ inv.features.featureBranch
  /\ Truthy(inv.yaml)
  /\ ~pr.draft
  /\ T_featureBranch \in inv.labelsBefore

\* C8: feature-branch rule, label present. On a pull request that carries
\* feature-branch, the invocation never calls addLabels or createComment for
\* the feature-branch rule and does not read the field; when its calls take
\* effect it ends with the feature-branch error comments removed and its
\* check run completed with success, whatever needs_feature_branch holds.
C8_LabelPresent ==
  /\ (inv.features.featureBranch /\ T_featureBranch \in inv.labelsBefore) =>
       /\ ~Called("addLabels", "fb")
       /\ ~Called("createComment", "fb")
       /\ inv.fbValue = Null
  /\ LabelPresentRun =>
       /\ Called("listComments", "fb")
       /\ CommentsOf(comments, "fb") = {}
       /\ T_featureBranch \in labels
       /\ Cardinality(CompletedRuns(CheckRunName("fb"), "success")) = 1
       /\ \A i \in CompletedRuns(CheckRunName("fb"), "success") :
            checkRuns[i].title = "Feature Branch Label Already Present"
       /\ CompletedRuns(CheckRunName("fb"), "failure") = {}

\* the label is present and the field holds an array
C8_Witness ==
  /\ LabelPresentRun
  /\ IsArray(featureBranchField)

(***************************************************************************)
(* C9 and C10: the field as it is written in the YAML block                *)
(***************************************************************************)
RECURSIVE SplitLines(_)
SplitLines(s) ==
  LET nls == {i \in 1..Len(s) : s[i] = NL}
  IN  IF nls = {} THEN <<s>>
      ELSE <<SubSeq(s, 1, Min(nls) - 1)>> \o SplitLines(SubSeq(s, Min(nls) + 1, Len(s)))

\* the lines of a text that start with the key of a field
FieldLines(text, field) ==
  SelectSeq(SplitLines(text), LAMBDA l : StartsWith(l, field \o <<":">>))

\* what the first line of a field holds after the colon, without a comment
\* and trimmed
Written(text, field) ==
  LET line == FieldLines(text, field)[1]
      rest == SubSeq(line, Len(field) + 2, Len(line))
  IN  Trim(StripComment(rest))

\* one layer of surrounding quotes removed
Unquoted(s) ==
  IF Len(s) >= 2 /\ IsQuote(Head(s)) /\ Last(s) = Head(s)
    THEN SubSeq(s, 2, Len(s) - 1)
    ELSE s

\* an ended invocation of the feature-branch rule, every call effective, on
\* a pull request without the feature-branch label whose YAML block has a
\* needs_feature_branch line
NoLabelYetRun ==
  /\ Done /\ AllCallsEffective
  /\ inv.features.featureBranch
  /\ Truthy(inv.yaml)
  /\ ~pr.draft
  /\ T_featureBranch \notin inv.labelsBefore
  /\ FieldLines(inv.yaml.v, T_needs_feature_branch) # <<>>

\* needs_feature_branch as written, unquoted and in lower case
NormalisedFlag == ToLowerCase(Unquoted(Written(inv.yaml.v, T_needs_feature_branch)))

FeatureBranchSuccess ==
  /\ Cardinality(CompletedRuns(CheckRunName("fb"), "success")) = 1
  /\ CompletedRuns(CheckRunName("fb"), "failure") = {}
  /\ ~Called("createComment", "fb")

\* C9: feature-branch boolean parsing, no label yet. A needs_feature_branch
\* value that is true once trimmed, unquoted and lower-cased makes the
\* invocation add exactly feature-branch and complete the check run with
\* success; a value that is false under the same normalisation adds no
\* label, posts no error comment and completes the check run with success.
C9_BooleanParsing ==
  NoLabelYetRun =>
    /\ NormalisedFlag = T_true =>
         /\ Cardinality(CallIndices("addLabels", "fb")) = 1
         /\ \A i \in CallIndices("addLabels", "fb") :
              inv.calls[i].labels = <<T_featureBranch>>
         /\ T_featureBranch \in labels
         /\ FeatureBranchSuccess
    /\ NormalisedFlag = T_false =>
         /\ ~Called("addLabels", "fb")
         /\ T_featureBranch \notin labels
         /\ FeatureBranchSuccess

\* the value is written in quotes and upper case and normalises to true
C9_Witness ==
  /\ NoLabelYetRun
  /\ NormalisedFlag = T_true
  /\ IsQuote(Head(Written(inv.yaml.v, T_needs_feature_branch)))
  /\ Unquoted(Written(inv.yaml.v, T_needs_feature_branch)) # T_true

\* a text has a line for the field with nothing but blanks or a comment
\* after the colon
EmptyFieldLine(text, field) ==
  /\ FieldLines(text, field) # <<>>
  /\ Written(text, field) = <<>>

\* C10: empty field value is absent. When the line of a field has nothing
\* but blanks and a comment after its colon, parseYamlValue returns null for
\* the field, whatever lines follow.
C10_EmptyValueIsAbsent ==
  (pout # NoParse /\ EmptyFieldLine(ptext, pout.field)) => pout.out = Null

\* the field line is empty, another line follows it, and the field is read
C10_Witness ==
  /\ pout # NoParse
  /\ EmptyFieldLine(ptext, pout.field)
  /\ Len(SplitLines(ptext)) = 2
  /\ pout.out # Null

(***************************************************************************)
(* C11                                                                     *)
(***************************************************************************)
\* an ended invocation of the feature-branch rule, every call effective, on
\* a pull request without the feature-branch label whose field holds a text
\* that is neither true nor false in any case
InvalidFlagRun ==
  /\ Done /\ AllCallsEffective
  /\ inv.features.featureBranch
  /\ Truthy(inv.yaml)
  /\ ~pr.draft
  /\ T_featureBranch \notin inv.labelsBefore
  /\ FieldLines(inv.yaml.v, T_needs_feature_branch) # <<>>
  /\ Head(Written(inv.yaml.v, T_needs_feature_branch)) # "["
  /\ NormalisedFlag \notin {T_true, T_false, <<>>}

MalformedArray(text, field) ==
  /\ FieldLines(text, field) # <<>>
  /\ Written(text, field) # <<>>
  /\ Head(Written(text, field)) = "["
  /\ Last(Written(text, field)) = "]"
  /\ parseYamlValue(Scalar(text), field) = Null

\* a malformed array of a category is reported and no label of the category
\* is added
MalformedReported(category, prefix) ==
  /\ ErrorsOf(category) # <<>>
  /\ WithPrefix(inv.labelsToAdd, prefix) = <<>>
  /\ (Done /\ AllCallsEffective) =>
       /\ Cardinality(CompletedRuns(CheckRunName("rb"), "failure")) = 1
       /\ Called("createComment", "rb")

\* C13: malformed array syntax is reported. When a release or backport
\* field is written between brackets but cannot be parsed as an array, on a
\* pull request without a label of that prefix, the invocation has a
\* validation error for the category, ends with a failed check run and an
\* error comment, and adds no label of the category.
C13_MalformedArrayReported ==
  (inv.decided /\ Truthy(inv.yaml)) =>
    /\ (/\ inv.features.releaseLabeling
        /\ ~SomeStartsWith(inv.labelsBefore, T_releaseDash)
        /\ MalformedArray(inv.yaml.v, T_release))
         => MalformedReported("release", T_releaseDash)
    /\ (/\ inv.features.backportLabeling
        /\ ~SomeStartsWith(inv.labelsBefore, T_backportDash)
        /\ MalformedArray(inv.yaml.v, T_backport))
         => MalformedReported("backport", T_backportDash)

\* the release field is a malformed array and the invocation ends with a
\* successful check run and no error
C13_Witness ==
  /\ Done /\ AllCallsEffective
  /\ inv.decided
  /\ inv.features.releaseLabeling
  /\ ~SomeStartsWith(inv.labelsBefore, T_releaseDash)
  /\ MalformedArray(inv.yaml.v, T_release)
  /\ inv.validationErrors = <<>>
  /\ CompletedRuns(CheckRunName("rb"), "success") # {}

(***************************************************************************)
(* C14                                                                     *)
(***************************************************************************)
\* an ended invocation of the feature-branch rule, every call effective, on
\* a pull request without the feature-branch label
FeatureBranchRun ==
  /\ Done /\ AllCallsEffective
  /\ inv.features.featureBranch
  /\ Truthy(inv.yaml)
  /\ ~pr.draft
  /\ T_featureBranch \notin inv.labelsBefore

\* the field holds a value other than true, false and the empty text
OtherThanBoolean(value) ==
  /\ Truthy(value)
  /\ (IsArray(value) \/ ToLowerCase(value.v) \notin {T_true, T_false, <<>>})

\* C14: a malformed boolean never aborts the run. Whatever parseYamlValue
\* returns for needs_feature_branch, the feature-branch rule with succeeding
\* gateway calls ends without raising, and every value other than true,
\* false and empty ends in a failed check run titled as a validation
\* failure and an error comment.
C14_NeverAborts ==
  FeatureBranchRun =>
    /\ inv.outcome = "returned"
    /\ OtherThanBoolean(featureBranchField) =>
         /\ \E i \in CompletedRuns(CheckRunName("fb"), "failure") :
              checkRuns[i].title = "YAML Validation Failed"
         /\ Called("createComment", "fb")

\* the field holds an array and the invocation raises without a comment
C14_Witness ==
  /\ FeatureBranchRun
  /\ IsArray(featureBranchField)
  /\ inv.outcome = "raised"
  /\ ~Called("createComment", "fb")

(***************************************************************************)
(* Vocabulary of the properties of a whole run                             *)
(***************************************************************************)
TopDone == top.pc = "done"

\* every gateway call of the run succeeded and had its effect
RunEffective == top.fails = 0 /\ inv.fails = 0 /\ ~isDryRun(opts)

TopCallIndices(op, tag) ==
  {i \in 1..Len(top.calls) : top.calls[i].op = op /\ top.calls[i].tag = tag}

TopCalled(op, tag) == TopCallIndices(op, tag) # {}

(***************************************************************************)
(* C12                                                                     *)
(***************************************************************************)
\* a finished run whose release/backport rule reported a validation error
ValidationErrorRun ==
  /\ TopDone /\ RunEffective
  /\ Called("createComment", "rb")

\* C12: a YAML validation error does not abort the run. When the
\* release/backport rule has reported a validation error and every gateway
\* call succeeded, the feature-branch rule has run if it is enabled, stale
\* detection has run if it is enabled, and execute has returned.
C12_ValidationErrorDoesNotAbort ==
  ValidationErrorRun =>
    /\ inv.features.featureBranch => Called("createCheckRun", CheckRunName("fb"))
    /\ top.staleDetection => TopCalled("listOpenPRs", "stale")
    /\ top.outcome = "returned"

\* after the reported release error the array under needs_feature_branch
\* makes the run raise before stale detection
C12_Witness ==
  /\ ValidationErrorRun
  /\ IsArray(featureBranchField)
  /\ top.staleDetection
  /\ ~TopCalled("listOpenPRs", "stale")
  /\ top.outcome = "raised"

(***************************************************************************)
(* C15                                                                     *)
(***************************************************************************)
\* a finished run whose smart rule decided for a pull request that is not a
\* draft, every call of the run succeeding
SmartRun ==
  /\ TopDone /\ RunEffective
  /\ top.decision # "none"
  /\ ~pr.draft

\* the addLabels calls of the triage rules, and those for one label
TriageAdds == TopCallIndices("addLabels", "triage")
TriageAddsOf(label) == {i \in TriageAdds : top.calls[i].labels = <<label>>}

\* the smart rule ensured the label: one call adding it when it was missing,
\* no call when it was present, and no call for any other label
Ensured(label) ==
  /\ label \in labels
  /\ TriageAdds = TriageAddsOf(label)
  /\ Cardinality(TriageAdds) = IF label \in top.labelsBefore THEN 0 ELSE 1

HasRelease ==
  HasLabel(top.labelsBefore, N_releaseStar) \/ HasYamlValue[pr.body][T_release]

HasBackport ==
  HasLabel(top.labelsBefore, N_backportStar) \/ HasYamlValue[pr.body][T_backport]

DraftRun ==
  /\ top.pc # "ready"
  /\ \/ top.event.kind = "pull_request"
     \/ top.event.kind = "workflow_run" /\ top.event.branch = pr.head
  /\ pr.draft

\* C16: drafts are skipped entirely. In a run for a draft pull request no
\* label is added to it, no comment on it is created or deleted and no check
\* run is created, whatever features are enabled and whatever the gateway
\* answers.
C16_DraftsSkipped ==
  DraftRun =>
    /\ labels = top.labelsBefore
    /\ comments = top.commentsBefore
    /\ checkRuns = <<>>
    /\ \A i \in 1..Len(top.calls) : top.calls[i].op # "addLabels"
    /\ \A i \in 1..Len(inv.calls) :
         inv.calls[i].op \notin {"addLabels", "createComment", "deleteComment",
                                 "createCheckRun"}

\* a finished run for a draft with every feature enabled: the label
\* automation and the stale detection were entered and did nothing
C16_Witness ==
  /\ DraftRun /\ TopDone
  /\ top.event.kind = "workflow_run"
  /\ rbEnabled(detectEnabledFeatures(opts))
  /\ detectEnabledFeatures(opts).featureBranch
  /\ top.labelRun = "executed"
  /\ TopCalled("listOpenPRs", "stale")
  /\ Truthy(YamlOfBody[pr.body])
  /\ Len(top.commentsBefore) > 1

(***************************************************************************)
(* C17                                                                     *)
(***************************************************************************)
\* a run for a workflow_run event whose head branch is empty or main, or is
\* the branch of no pull request, or is the branch of a closed pull request
UnresolvedRun ==
  /\ top.pc # "ready"
  /\ top.event.kind = "workflow_run"
  /\ \/ top.event.branch \in {"", "main"}
     \/ top.event.branch # pr.head
     \/ pr.state = "closed"

\* C17: workflow_run resolution. When the head branch of the run is empty or
\* main, no pull request has that head branch, or the pull request found is
\* closed, neither the smart triage rule nor the label automation changes a
\* pull request: no label other than the stale label of stale detection is
\* added, no comment is created or deleted and no check run is created.
C17_WorkflowRunResolution ==
  UnresolvedRun =>
    /\ labels \subseteq top.labelsBefore \cup {T_stale}
    /\ top.labelsBefore \subseteq labels
    /\ TopCallIndices("addLabels", "triage") = {}
    /\ inv.calls = NoCall
    /\ comments = top.commentsBefore
    /\ checkRuns = <<>>

\* both lookups found the closed pull request, whose body has a YAML block,
\* and the run finished
C17_Witness ==
  /\ UnresolvedRun /\ TopDone
  /\ top.event.branch = pr.head
  /\ pr.state = "closed"
  /\ TopCalled("findPRByBranch", "triage")
  /\ TopCalled("findPRByBranch", "label")
  /\ Truthy(YamlOfBody[pr.body])
  /\ top.outcome = "returned"

(***************************************************************************)
(* C18                                                                     *)
(***************************************************************************)
\* a finished run for an issues event under a valid configuration
IssueRun ==
  /\ TopDone
  /\ top.event.kind = "issues"
  /\ validate(opts, top.event.kind)

\* the addLabels calls of the run on the issue
IssueAdds ==
  {i \in TopCallIndices("addLabels", "triage") : top.calls[i].labels = <<T_triage>>}

\* C18: issue triage is idempotent. A run for an opened issue always calls
\* addLabels with triage on the issue; when the issue already carries triage
\* and every gateway call succeeds, the run returns, the labels of the issue
\* are unchanged and triage is not recorded in labelsAdded; a run for any
\* other issue action adds no label to the issue.
C18_IssueTriageIdempotent ==
  IssueRun =>
    IF top.event.action = "opened" THEN
      /\ IssueAdds # {}
      /\ (T_triage \in top.issueLabelsBefore /\ RunEffective) =>
           /\ top.outcome = "returned"
           /\ issueLabels = top.issueLabelsBefore
           /\ T_triage \notin Range(top.labelsAdded)
    ELSE
      /\ IssueAdds = {}
      /\ issueLabels = top.issueLabelsBefore

\* the issue carried triage, the request succeeded and triage is recorded in
\* labelsAdded
C18_Witness ==
  /\ IssueRun /\ RunEffective
  /\ top.event.action = "opened"
  /\ T_triage \in top.issueLabelsBefore
  /\ issueLabels = top.issueLabelsBefore
  /\ top.outcome = "returned"
  /\ T_triage \in Range(top.labelsAdded)

(***************************************************************************)
(* C19                                                                     *)
(***************************************************************************)
\* the labels of the target of the event when the run started, and now
TargetBefore ==
  IF top.event.kind = "issues" THEN top.issueLabelsBefore ELSE top.labelsBefore

TargetNow == IF top.event.kind = "issues" THEN issueLabels ELSE labels

\* a finished run under a valid configuration, every call succeeding, for the
\* event of a label removed from an issue or a pull request that no longer
\* carries triage
ProtectionRun ==
  /\ TopDone /\ RunEffective
  /\ validate(opts, top.event.kind)
  /\ top.event.kind \in {"issues", "pull_request"}
  /\ top.event.action = "unlabeled"
  /\ T_triage \notin TargetBefore

\* C19: triage protection. After a run for the removal of the triage label
\* from an issue or a pull request, the target carries triage again exactly
\* when it carried no label matching 'release *' and no label matching
\* 'backport *'.
C19_TriageProtection ==
  ProtectionRun =>
    (T_triage \in TargetNow
       <=> /\ ~HasLabel(TargetBefore, N_releaseStar)
           /\ ~HasLabel(TargetBefore, N_backportStar))

\* triage was removed from an issue without release or backport label and
\* the run returned without adding it again
C19_Witness ==
  /\ ProtectionRun
  /\ top.event.kind = "issues"
  /\ ~HasLabel(TargetBefore, N_releaseStar)
  /\ ~HasLabel(TargetBefore, N_backportStar)
  /\ top.outcome = "returned"
  /\ TopCallIndices("addLabels", "triage") = {}
  /\ T_triage \notin issueLabels

(***************************************************************************)
(* C20                                                                     *)
(***************************************************************************)
\* a run for an event that is neither pull_request nor workflow_run
OtherEventRun ==
  /\ top.pc # "ready"
  /\ top.event.kind \notin {"pull_request", "workflow_run"}

\* C20: the label automation is restricted by event kind. In a run for an
\* event that is neither pull_request nor workflow_run the label automation
\* is not executed: no release, backport or feature-branch label is added to
\* the pull request or the issue, no comment is created or deleted and no
\* check run is created, whatever allowlists and toggles are configured.
C20_RestrictedByEventKind ==
  OtherEventRun =>
    /\ top.labelRun = "none"
    /\ inv = Fresh
    /\ labels \subseteq top.labelsBefore \cup {T_stale}
    /\ issueLabels \subseteq top.issueLabelsBefore \cup {T_triage}
    /\ \A i \in 1..Len(top.calls) :
         top.calls[i].op = "addLabels"
           => top.calls[i].labels \in {<<T_triage>>, <<T_stale>>}
    /\ comments = top.commentsBefore
    /\ checkRuns = <<>>

\* a finished run for an opened issue with every label feature enabled,
\* while the open pull request has a YAML block and an earlier error comment
C20_Witness ==
  /\ OtherEventRun /\ TopDone
  /\ top.event.kind = "issues"
  /\ top.event.action = "opened"
  /\ rbEnabled(detectEnabledFeatures(opts))
  /\ detectEnabledFeatures(opts).featureBranch
  /\ Truthy(YamlOfBody[pr.body])
  /\ ~pr.draft /\ pr.state = "open"
  /\ Len(top.commentsBefore) > 1
  /\ top.outcome = "returned"

(***************************************************************************)
(* Vocabulary of the properties of a stale pass                            *)
(***************************************************************************)
StaleDone == sd.pc = "done"

\* the pull requests of the list whose processPR has ended
Processed ==
  {n \in 1..Len(sd.pullRequests) : n < sd.i \/ StaleDone}

\* the addLabels calls of the pass for the pull request at position n
StaleAdds(n) ==
  {k \in 1..Len(sd.calls) : sd.calls[k].op = "addLabels" /\ sd.calls[k].tag = n}

\* the dates getLastActivityDate answered for the pull request at position n
LastActivities(n) ==
  {sd.seen[k].lastActivity : k \in {j \in 1..Len(sd.seen) : sd.seen[j].number = n}}

Eligible(n) ==
  /\ ~sd.pullRequests[n].draft
  /\ T_stale \notin sd.pullRequests[n].labels

\* the configured number of days, one day when none is configured
ConfiguredDays == IF opts.staleDays = <<>> THEN 1 ELSE opts.staleDays[1]

(***************************************************************************)
(* C21                                                                     *)
(***************************************************************************)
\* C21: stale threshold boundary. For a listed pull request that is not a
\* draft and has no stale label, the pass calls addLabels with stale exactly
\* when now minus the last activity is strictly greater than staleDays times
\* 86,400,000 ms.
C21_ThresholdBoundary ==
  \A n \in Processed :
    Eligible(n) =>
      /\ Cardinality(LastActivities(n)) = 1
      /\ \A t \in LastActivities(n) :
           (StaleAdds(n) # {}) <=> (Now - t > ConfiguredDays * 86400000)

\* in one pass a pull request at exactly the threshold is not marked and a
\* pull request one millisecond older is
C21_Witness ==
  /\ StaleDone
  /\ \E n, m \in Processed :
       /\ Eligible(n) /\ Eligible(m)
       /\ \E t \in LastActivities(n) : Now - t = ConfiguredDays * 86400000
       /\ StaleAdds(n) = {}
       /\ \E t \in LastActivities(m) : Now - t = ConfiguredDays * 86400000 + 1
       /\ StaleAdds(m) # {}
       /\ T_stale \in sd.prs[m].labels

(***************************************************************************)
(* C22                                                                     *)
(***************************************************************************)
\* the timestamps the reads that did not fail hold for the pull request
Retrievable ==
  (IF "getPR" \in sd.failed THEN {} ELSE {sd.signals.updated_at})
  \cup (IF "listPRCommits" \in sd.failed THEN {}
        ELSE {c[1] : c \in {x \in Range(sd.signals.commits) : x # <<>>}})
  \cup (IF "listComments" \in sd.failed THEN {} ELSE Range(sd.signals.comments))
  \cup (IF "listPRReviewComments" \in sd.failed THEN {}
        ELSE Range(sd.signals.reviewComments))
  \cup (IF "listPRReviews" \in sd.failed THEN {}
        ELSE {r[1] : r \in {x \in Range(sd.signals.reviews) : x # <<>>}})
  \cup (IF "listTimelineEvents" \in sd.failed THEN {}
        ELSE {e.created_at :
                e \in {x \in Range(sd.signals.timeline) :
                         x.event = "labeled" \/ x.event = "unlabeled"}})

Answered == sd.pc = "answered"

\* C22: last-activity computation. getLastActivityDate answers the latest of
\* the timestamps its reads retrieved; the created_at of the pull request
\* when none was retrieved; the current time when that read fails too. It
\* answers a date for every subset of failing reads.
C22_LastActivity ==
  Answered =>
    /\ Len(sd.out) = 1
    /\ sd.out[1] =
         IF Retrievable # {}
           THEN CHOOSE t \in Retrievable : \A u \in Retrievable : u <= t
         ELSE IF "getPR:created_at" \in sd.failed THEN sd.clock
         ELSE sd.signals.created_at

\* the first getPR failed and the timeline holds a later event that is no
\* label change: the answer is the date of the label change
C22_Witness ==
  /\ Answered
  /\ "getPR" \in sd.failed
  /\ "listTimelineEvents" \notin sd.failed
  /\ \E e \in Range(sd.signals.timeline) :
       e.event \notin {"labeled", "unlabeled"} /\ e.created_at > sd.out[1]
  /\ \E e \in Range(sd.signals.timeline) :
       e.event = "unlabeled" /\ e.created_at = sd.out[1]

(***************************************************************************)
(* C23                                                                     *)
(***************************************************************************)
\* the reads of the last activity of the pull request at position n
ActivityReads(n) ==
  {k \in 1..Len(sd.calls) :
     sd.calls[k].op = "getLastActivityDate" /\ sd.calls[k].tag = n}

\* C23: partial-failure tolerance of the stale scan. When processing one
\* pull request of the list raises, every later pull request of the list is
\* still processed and the pass returns; the pass raises only when listing
\* the open pull requests failed, and then nothing else was called.
C23_PartialFailureTolerance ==
  StaleDone =>
    /\ sd.outcome \in {"returned", "raised"}
    /\ sd.outcome = "raised" =>
         /\ Len(sd.calls) = 1
         /\ sd.calls[1].op = "listOpenPRs"
         /\ sd.caught = {}
    /\ sd.outcome = "returned" =>
         /\ sd.pullRequests = [n \in 1..Len(sd.prs) |->
                                 [sd.prs[n] EXCEPT !.labels = sd.pullRequests[n].labels]]
         /\ \A n \in 1..Len(sd.prs) :
              Eligible(n) =>
                /\ Cardinality(ActivityReads(n)) = 1
                /\ \A t \in LastActivities(n) :
                     Now - t > ConfiguredDays * Day => StaleAdds(n) # {}

\* the addLabels of the first pull request failed, and the second was marked
\* stale afterwards
C23_Witness ==
  /\ StaleDone
  /\ sd.outcome = "returned"
  /\ Len(sd.prs) = 2
  /\ sd.caught = {1}
  /\ T_stale \notin sd.prs[1].labels
  /\ T_stale \notin sd.pullRequests[2].labels
  /\ T_stale \in sd.prs[2].labels
  /\ \E j \in StaleAdds(1), k \in StaleAdds(2) : j < k

(***************************************************************************)
(* C24                                                                     *)
(***************************************************************************)
\* the repository owner or name is empty, or the token is missing
IdentityMissing == opts.owner = "" \/ opts.repo = "" \/ opts.githubToken = ""

\* C24: configuration errors are raised before any processing. When the
\* repository owner or name is empty or the token is missing, execute raises
\* before any gateway call is made, and no label, comment or check run is
\* changed.
C24_ConfigurationErrorFirst ==
  (top.pc \notin {"none", "ready"} /\ IdentityMissing) =>
    /\ TopDone
    /\ top.outcome = "raised"
    /\ top.calls = NoCall
    /\ inv.calls = NoCall
    /\ top.labelRun = "none"
    /\ top.staleRun = "none"
    /\ labels = top.labelsBefore
    /\ issueLabels = top.issueLabelsBefore
    /\ comments = top.commentsBefore
    /\ checkRuns = <<>>

\* a run without a token for a pull request event that would otherwise be
\* labelled
C24_Witness ==
  /\ TopDone
  /\ top.outcome = "raised"
  /\ opts.githubToken = ""
  /\ top.event.kind = "pull_request"
  /\ ~pr.draft
  /\ labels = {}
  /\ top.calls = NoCall

(***************************************************************************)
(* C25                                                                     *)
(***************************************************************************)
\* a number of days is configured and it is not a positive integer
InvalidStaleDays == opts.staleDays # <<>> /\ opts.staleDays[1] < 1

\* C25: an invalid number of stale days is fatal. For every configured
\* staleDays that is not a positive integer, 0 and the negative numbers in
\* particular, validate raises a configuration error: the run raises before
\* any call and the stale pass does not run.
C25_InvalidStaleDaysFatal ==
  (TopDone /\ InvalidStaleDays) =>
    /\ top.outcome = "raised"
    /\ top.calls = NoCall
    /\ top.staleRun = "none"

\* a schedule run with staleDays 0 that has returned after its stale pass
\* labelled the pull request stale, with the threshold of one day
C25_Witness ==
  /\ TopDone
  /\ opts.staleDays = <<0>>
  /\ top.event.kind = "schedule"
  /\ top.outcome = "returned"
  /\ top.staleRun = "executed"
  /\ staleThresholdMs(opts) = Day
  /\ T_stale \in labels
  /\ T_stale \notin top.labelsBefore

(***************************************************************************)
(* C26                                                                     *)
(***************************************************************************)
MutatingCalls ==
  {"addLabels", "createCheckRun", "updateCheckRun", "createComment",
   "deleteComment"}

\* the step logs a mutating gateway call of the run or of label automation
MutatingCallLogged ==
  \/ /\ top.pc # "none"
     /\ top'.pc # "none"
     /\ Len(top'.calls) > Len(top.calls)
     /\ top'.calls[Len(top'.calls)].op \in MutatingCalls
  \/ /\ Len(inv'.calls) > Len(inv.calls)
     /\ inv'.calls[Len(inv'.calls)].op \in MutatingCalls

\* C26: dry-run performs no mutation. With dryRun true no step of an
\* invocation changes the labels, the comments or the check runs of the
\* repository, and every mutating gateway call returns a success value: the
\* step that makes it counts no failure and does not leave execute raising.
C26_DryRunNoMutation ==
  [][opts.dryRun =>
       /\ labels' = labels
       /\ issueLabels' = issueLabels
       /\ comments' = comments
       /\ checkRuns' = checkRuns
       /\ MutatingCallLogged =>
            /\ top'.fails = top.fails
            /\ inv'.fails = inv.fails
            /\ top'.outcome # "raised"
            /\ inv'.outcome # "raised"]_vars

\* a finished dry run that called addLabels, createCheckRun, createComment
\* and deleteComment, held the check run id of the dry run and reported the
\* labels as added
C26_Witness ==
  /\ TopDone
  /\ opts.dryRun
  /\ top.outcome = "returned"
  /\ inv.checkRun = DryRunCheckId
  /\ \A op \in MutatingCalls \ {"updateCheckRun"} :
       \/ \E i \in 1..Len(top.calls) : top.calls[i].op = op
       \/ \E i \in 1..Len(inv.calls) : inv.calls[i].op = op
  /\ Len(top.labelsAdded) > 0
  /\ labels = top.labelsBefore
  /\ comments = top.commentsBefore
  /\ checkRuns = <<>>

(***************************************************************************)
(* C27                                                                     *)
(***************************************************************************)
\* addLabels has ended after a 422 whose re-read of the labels succeeded
ConflictHandled ==
  /\ TopDone
  /\ Len(top.calls) = 2
  /\ top.calls[1].op = "addLabels"
  /\ top.calls[2].op = "getLabels"
  /\ top.fails = 1

\* C27: conflict handling of addLabels. After a 422 and the re-read of the
\* labels of the target, addLabels returns (with nothing added) only when
\* the requested labels are already applied, and raises whenever a requested
\* label is not on the target, for every requested list, also one that mixes
\* applied and missing labels.
C27_ConflictHandling ==
  ConflictHandled =>
    /\ top.outcome \in {"returned", "raised"}
    /\ top.outcome = "returned" <=> Range(top.adding) \subseteq issueLabels
    /\ top.labelsAdded = <<>>
    /\ issueLabels = top.issueLabelsBefore

\* a 422 for a list of one applied and one missing label: addLabels has
\* returned and the missing label is still missing
C27_Witness ==
  /\ ConflictHandled
  /\ top.adding = <<T_triage, T_readyForReview>>
  /\ issueLabels = {T_triage}
  /\ top.outcome = "returned"
  /\ top.labelsAdded = <<>>

(***************************************************************************)
(* C28                                                                     *)
(***************************************************************************)
\* the target of the addLabels call of a run that asks for label l: the
\* issue of an issues event for the triage rule, the pull request for the
\* other rules and for the stale pass
OnIssue(l) == top.event.kind = "issues" /\ l # T_stale

AddTargetBefore(l) ==
  IF OnIssue(l) THEN top.issueLabelsBefore ELSE top.labelsBefore

AddTargetNow(l) == IF OnIssue(l) THEN issueLabels ELSE labels

\* C28: labelsAdded records only newly attached labels. After an invocation
\* every label name in labelsAdded of the result was absent from its target
\* before the invocation and is present on it afterwards.
C28_LabelsAddedNewlyAttached ==
  TopDone =>
    \A l \in Range(top.labelsAdded) :
      /\ l \notin AddTargetBefore(l)
      /\ l \in AddTargetNow(l)

\* a run for an opened issue that carried triage has returned after one
\* successful addLabels request, with triage in labelsAdded
C28_Witness ==
  /\ TopDone
  /\ top.outcome = "returned"
  /\ ~opts.dryRun
  /\ top.fails = 0
  /\ top.event = Event("issues", "opened", "", "")
  /\ T_triage \in top.issueLabelsBefore
  /\ Len(top.calls) = 1
  /\ top.calls[1].op = "addLabels"
  /\ top.labelsAdded = <<T_triage>>

(***************************************************************************)
(* C29                                                                     *)
(***************************************************************************)
InCleanup(r) == r.pc \in {"cleanup_list", "cleanup_delete"}

\* the step ends a cleanupWorkflowComments call
CleanupEnds ==
  /\ InCleanup(inv)
  /\ ~InCleanup(inv') \/ inv'.site # inv.site

SingleInvocation(o, b, ls) ==
  LET features == detectEnabledFeatures(o)
      yamlContent == YamlOfBody[b]
      rbRuns == Truthy(yamlContent) /\ rbEnabled(features)
      fbRuns == Truthy(yamlContent) /\ features.featureBranch
      rb == ReleaseBackportDecision(o, features, yamlContent, ls)
      rbValid == ~rbRuns \/ Len(rb.validationErrors) = 0
      afterRb == IF rbRuns /\ rbValid /\ ~isDryRun(o)
                   THEN ls \cup Range(rb.labelsToAdd) ELSE ls
      v == parseYamlValue(yamlContent, T_needs_feature_branch)
      fbSkips == IncludesFeatureBranch(afterRb) \/ ~Truthy(v)
      fbValid == \/ ~fbRuns
                 \/ fbSkips
                 \/ ~IsArray(v) /\ ToLowerCase(v.v) \in {T_true, T_false, <<>>}
      fbAdds == /\ fbRuns /\ ~fbSkips /\ ~IsArray(v) /\ ToLowerCase(v.v) = T_true
                /\ ~isDryRun(o)
  IN  [valid |-> rbValid /\ fbValid,
       labels |-> afterRb \cup (IF fbAdds THEN {T_featureBranch} ELSE {})]

BothDone == inv.pc = "done" /\ peer.pc = "done"

\* no request of either invocation was answered with an error
NoRequestFailed == inv.fails = 0 /\ peer.fails = 0

\* C30: overlapping invocations are benign. Two invocations for the same
\* pull request and the same valid body, their gateway calls interleaved in
\* any order and every request answered without an error: both return and
\* the labels of the pull request are those one invocation alone produces.
\* A 422 of addLabels for labels the other invocation has attached is
\* answered with a skip and does not raise.
C30_OverlapBenign ==
  [][/\ (BothDone' /\ NoRequestFailed'
          /\ SingleInvocation(opts, pr.body, inv.labelsBefore).valid) =>
          /\ inv'.outcome = "returned"
          /\ peer'.outcome = "returned"
          /\ labels' = SingleInvocation(opts, pr.body, inv.labelsBefore).labels
     /\ (inv.pc = "handle422" /\ peer' = peer /\ inv'.fails = inv.fails
          /\ Range(inv.adding) \subseteq labels) =>
          /\ inv'.outcome # "raised"
          /\ inv'.labelsAdded = inv.labelsAdded]_vars

\* both invocations have listed the same error comment, tried to delete it
\* and asked for the same labels; both have returned
C30_Witness ==
  /\ BothDone /\ NoRequestFailed
  /\ ~opts.dryRun
  /\ SingleInvocation(opts, pr.body, inv.labelsBefore).valid
  /\ inv.outcome = "returned"
  /\ peer.outcome = "returned"
  /\ labels # inv.labelsBefore
  /\ \E i \in 1..Len(inv.calls), j \in 1..Len(peer.calls) :
       /\ inv.calls[i].op = "addLabels"
       /\ peer.calls[j] = inv.calls[i]
  /\ \E i \in 1..Len(inv.calls), j \in 1..Len(peer.calls) :
       /\ inv.calls[i].op = "deleteComment"
       /\ peer.calls[j] = inv.calls[i]
  /\ Len(comments) < Len(inv.commentsBefore)

(***************************************************************************)
(* Validator vocabulary                                                    *)
(***************************************************************************)
Validated == pout.field # <<>>

\* the accepted list of the field that was validated
Allowlist ==
  IF pout.field = T_release THEN opts.acceptedReleases ELSE opts.acceptedBackports

Contains(L, v) == \E i \in 1..Len(L) : L[i] = v

(***************************************************************************)
(* C31                                                                     *)
(***************************************************************************)
\* C31: the validator matches the reference. Validating a scalar v against
\* an allowlist L answers valid exactly when L contains v; validating an
\* array answers one entry {value, valid} per element, in input order,
\* valid exactly when L contains that element, repeated elements giving
\* repeated entries.
C31_ValidatorReference ==
  Validated =>
    IF IsArray(ptext)
      THEN /\ pout.out.array
           /\ Len(pout.out.items) = Len(ptext.vs)
           /\ \A i \in 1..Len(ptext.vs) :
                /\ pout.out.items[i].value = ptext.vs[i]
                /\ pout.out.items[i].valid <=> Contains(Allowlist, ptext.vs[i])
      ELSE /\ ~pout.out.array
           /\ pout.out.ok <=> Contains(Allowlist, ptext.v)

\* an array with a repeated accepted element and a rejected one
C31_Witness ==
  /\ Validated
  /\ ptext = ArrayOf(<<V15, V99, V15>>)
  /\ Len(pout.out.items) = 3
  /\ pout.out.items[1].valid
  /\ ~pout.out.items[2].valid
  /\ pout.out.items[3].valid

(***************************************************************************)
(* C32                                                                     *)
(***************************************************************************)
InAllowlist(v) == Contains(Allowlist, v)
NotInAllowlist(v) == ~Contains(Allowlist, v)

\* C32: partition of an outcome. For a scalar v the valid values are [v]
\* when v is in the allowlist and empty otherwise, and the invalid values
\* are [v] when v is not in the allowlist and empty otherwise; for an array
\* both partitions keep the input order and together hold every element
\* once.
C32_Partition ==
  Validated =>
    IF IsArray(ptext)
      THEN /\ pout.valid = SelectSeq(ptext.vs, InAllowlist)
           /\ pout.invalid = SelectSeq(ptext.vs, NotInAllowlist)
      ELSE /\ pout.valid = (IF InAllowlist(ptext.v) THEN <<ptext.v>> ELSE <<>>)
           /\ pout.invalid = (IF NotInAllowlist(ptext.v) THEN <<ptext.v>> ELSE <<>>)

\* a scalar that is not accepted has no invalid value, and a scalar that is
\* accepted has the boolean true as its valid value
C32_Witness ==
  /\ Validated
  /\ ~IsArray(ptext)
  /\ \/ NotInAllowlist(ptext.v) /\ pout.invalid = <<>> /\ pout.valid = <<>>
     \/ InAllowlist(ptext.v) /\ pout.valid = <<BoolTrue>> /\ pout.invalid = <<>>

(***************************************************************************)
(* C33                                                                     *)
(***************************************************************************)
\* the addLabels calls of the stale pass
StaleAddCalls == {k \in 1..Len(sd.calls) : sd.calls[k].op = "addLabels"}

\* C33: stale eligibility. The stale pass calls addLabels only with the one
\* label stale and only for a pull request of the list listOpenPRs
\* answered that is no draft and is listed without the stale label,
\* whatever its last activity; no other label is attached to a pull request.
C33_StaleEligibility ==
  sd.pc # "ready" =>
    /\ \A k \in StaleAddCalls :
         /\ sd.calls[k].labels = <<T_stale>>
         /\ sd.calls[k].tag \in 1..Len(sd.pullRequests)
         /\ ~sd.pullRequests[sd.calls[k].tag].draft
         /\ T_stale \notin sd.pullRequests[sd.calls[k].tag].labels
    /\ \A n \in 1..Len(sd.pullRequests) :
         /\ sd.prs[n].labels \ {T_stale} = sd.pullRequests[n].labels \ {T_stale}
         /\ sd.prs[n].labels # sd.pullRequests[n].labels => StaleAdds(n) # {}

\* a pass over an inactive draft and an inactive pull request that carries
\* stale already has returned without an addLabels call
C33_Witness ==
  /\ StaleDone
  /\ sd.outcome = "returned"
  /\ Len(sd.pullRequests) = 2
  /\ sd.pullRequests[1].draft
  /\ T_stale \in sd.pullRequests[2].labels
  /\ \A n \in 1..2 : Now - sd.pullRequests[n].signals.updated_at > ConfiguredDays * Day
  /\ StaleAddCalls = {}

(***************************************************************************)
(* C34: check-run lifecycle                                                *)
(***************************************************************************)
\* the check runs that a completion update of the invocation has reached
CompletedCheckRuns == {i \in 1..Len(checkRuns) : checkRuns[i].status = "completed"}

\* the completion title was written by handleValidationErrors and then
\* replaced by the catch block of the same process function
Overwritten(i) ==
  /\ checkRuns[i].updates > 1
  /\ checkRuns[i].title \in {"Label Assignment Failed", "Workflow Execution Failed"}
  /\ Called("updateCheckRun:failure", "YAML Validation Failed")

\* C34: every check run created by processReleaseBackportLabeling or
\* processFeatureBranchLabeling receives exactly one completion update in
\* the invocation on every path, gateway failures included: it is never
\* updated twice, and when the invocation has returned or raised it is
\* completed and was updated once
C34_CheckRunLifecycle ==
  \A i \in 1..Len(checkRuns) :
    /\ checkRuns[i].updates <= 1
    /\ Done => i \in CompletedCheckRuns /\ checkRuns[i].updates = 1

\* a check run completed as 'YAML Validation Failed' whose error comment
\* could not be posted, completed a second time by the catch block
C34_Witness ==
  /\ Done
  /\ inv.outcome = "raised"
  /\ inv.fails = 1
  /\ \E i \in CompletedCheckRuns : Overwritten(i)
  /\ ~Called("createCheckRun", CheckRunName("fb"))

(***************************************************************************)
(* C35: label-name consistency across rules                                *)
(***************************************************************************)
\* the release and backport labels the label automation attached in the run
\* and the pull request carries: processReleaseLabel and processBackportLabel
\* name them release-<v> and backport-<v>
AutoAttached ==
  {l \in Range(top.labelsAdded) \cap labels :
     StartsWith(l, T_releaseDash) \/ StartsWith(l, T_backportDash)}

\* what hasLabels of a later invocation answers for the label alone
Recognised(l) ==
  IF StartsWith(l, T_releaseDash) THEN HasLabel({l}, N_releaseStar)
  ELSE HasLabel({l}, N_backportStar)

\* the pull request carried a label named as the automation names release
\* labels, its body has no release value, and the smart rule has decided
OnlyAutoReleaseSignal ==
  /\ top.decision # "none"
  /\ SomeStartsWith(top.labelsBefore, T_releaseDash)
  /\ ~HasYamlValue[pr.body][T_release]

\* C35: every release or backport label the YAML label automation attaches
\* is recognised as a release or backport label by the hasLabels checks of
\* the smart labelling rule and of triage protection, so a pull request
\* whose only release signal is such a label is decided 'ready for review'
C35_LabelNameConsistency ==
  /\ \A l \in AutoAttached : Recognised(l)
  /\ OnlyAutoReleaseSignal => top.decision = "ready"

\* a finished run that attached a release or backport label which the
\* patterns 'release *' and 'backport *' do not match
C35_Witness ==
  /\ TopDone
  /\ top.outcome = "returned"
  /\ ~isDryRun(opts)
  /\ \E l \in AutoAttached : ~Recognised(l)

(***************************************************************************)
(* C36: workflow runs that did not succeed                                 *)
(***************************************************************************)
\* a run for a workflow_run event whose conclusion is not success, on the
\* head branch of the pull request
UnsuccessfulWorkflowRun ==
  /\ top.pc # "ready"
  /\ top.event.kind = "workflow_run"
  /\ top.event.conclusion # "success"
  /\ top.event.branch = pr.head

\* C36: triage and label automation skip the same workflow runs. In a run
\* for a workflow_run event whose conclusion is not success, neither the
\* smart triage rule nor the YAML label automation adds a label to the pull
\* request of the head branch, creates or deletes a comment on it or creates
\* a check run (the label stale of the stale detection is not their doing).
C36_UnsuccessfulRunsSkipped ==
  UnsuccessfulWorkflowRun =>
    /\ labels \subseteq top.labelsBefore \cup {T_stale}
    /\ comments = top.commentsBefore
    /\ checkRuns = <<>>
    /\ \A i \in 1..Len(top.calls) :
         top.calls[i].op = "addLabels" => top.calls[i].labels = <<T_stale>>
    /\ \A i \in 1..Len(inv.calls) :
         inv.calls[i].op \notin {"addLabels", "createComment", "deleteComment",
                                 "createCheckRun"}

\* a finished run for a failed workflow run in which the smart rule added
\* nothing and the label automation created a check run and added a label
\* to the pull request of the head branch
C36_Witness ==
  /\ UnsuccessfulWorkflowRun /\ TopDone
  /\ top.outcome = "returned"
  /\ ~isDryRun(opts)
  /\ top.decision = "none"
  /\ TopCallIndices("findPRByBranch", "triage") = {}
  /\ TopCalled("findPRByBranch", "label")
  /\ Len(checkRuns) > 0
  /\ labels # top.labelsBefore
  /\ T_stale \notin labels

(***************************************************************************)
(* C37: an open pull request and a closed one on the same head branch      *)
(***************************************************************************)
\* the open pull requests of the run's head branch that are no drafts
OpenOfBranch ==
  {i \in 1..Len(pout.pulls) :
     /\ pout.pulls[i].head = pout.event.branch
     /\ pout.pulls[i].state = "open"
     /\ ~pout.pulls[i].draft}

\* a successful workflow run on a head branch other than main
SuccessfulBranchRun ==
  /\ pout.event.kind = "workflow_run"
  /\ pout.event.conclusion = "success"
  /\ pout.event.branch \notin {"", "main"}

Processes(target) == target # <<>> /\ target[1].number \in OpenOfBranch

\* C37: an open pull request is never shadowed. For a successful
\* workflow_run event on a head branch other than main, when an open
\* pull request of that branch that is no draft exists, the smart labelling
\* rule and the label automation process such a pull request, also when a
\* closed pull request of the branch was updated later.
C37_OpenNeverShadowed ==
  SuccessfulBranchRun /\ OpenOfBranch # {} =>
    Processes(pout.triage) /\ Processes(pout.label)

\* the branch has an open pull request and a closed one updated later, and
\* neither the smart rule nor the label automation processes a pull request
C37_Witness ==
  /\ SuccessfulBranchRun
  /\ OpenOfBranch # {}
  /\ \E i \in OpenOfBranch, j \in 1..Len(pout.pulls) :
       /\ pout.pulls[j].head = pout.event.branch
       /\ pout.pulls[j].state = "closed"
       /\ pout.pulls[j].updated_at > pout.pulls[i].updated_at
  /\ pout.triage = <<>>
  /\ pout.label = <<>>

(***************************************************************************)
(* C38: racing invocations after an edit of the body                       *)
(***************************************************************************)
\* the invocation that holds the body of the older event, and the other one
OlderInvocation == IF inv.yaml = YamlOfBody[pr.body] THEN peer ELSE inv
NewerInvocation == IF inv.yaml = YamlOfBody[pr.body] THEN inv ELSE peer

PostedError(r, d) ==
  \E i \in 1..Len(r.calls) : r.calls[i].op = "createComment" /\ r.calls[i].tag = d

CleanedUp(r, d) ==
  \E i \in 1..Len(r.calls) : r.calls[i].op = "listComments" /\ r.calls[i].tag = d

\* the older body was rejected in the domain, the newer body was not and its
\* invocation cleaned the domain's error comments up
RepairedDomain(d) ==
  /\ PostedError(OlderInvocation, d)
  /\ ~PostedError(NewerInvocation, d)
  /\ CleanedUp(NewerInvocation, d)

ErrorCommentsOf(d) == {i \in 1..Len(comments) : comments[i].domain = d}

\* both invocations have ended, no request failed, and it was no dry run
RaceOver == BothDone /\ NoRequestFailed /\ ~isDryRun(opts)

\* C38: no stale error comment after racing edits. When an invocation on an
\* older body that is invalid in a domain and an invocation on a newer body
\* that is valid in it overlap, in whatever order their gateway calls are
\* made, the pull request carries no error comment of that domain once both
\* have completed.
C38_NoStaleErrorComment ==
  RaceOver => \A d \in {"rb", "fb"} : RepairedDomain(d) => ErrorCommentsOf(d) = {}

\* both invocations returned, and the error comment of the older body is on
\* the pull request although the newer body is valid
C38_Witness ==
  /\ RaceOver
  /\ inv.outcome = "returned" /\ peer.outcome = "returned"
  /\ \E d \in {"rb", "fb"} : RepairedDomain(d) /\ ErrorCommentsOf(d) # {}

(***************************************************************************)
(* C39: the automation only adds labels                                    *)
(***************************************************************************)
\* C39: the automation only ever adds labels. No step of a run, for any
\* event and any options, removes a label from the pull request or from the
\* issue, so the labels of each target after the run include the labels it
\* had before.
C39_OnlyAddsLabels ==
  [][labels \subseteq labels' /\ issueLabels \subseteq issueLabels']_vars

\* a pull request that carried triage got 'ready for review' and kept triage
C39_Witness ==
  /\ TopDone
  /\ top.outcome = "returned"
  /\ T_triage \in top.labelsBefore
  /\ T_readyForReview \notin top.labelsBefore
  /\ T_readyForReview \in labels
  /\ T_triage \in labels

(***************************************************************************)
(* C40: cleanup confined to its domain                                     *)
(***************************************************************************)
\* C40: a cleanup of the error comments of a domain deletes only comments
\* the automation posted as error comments of that domain: no error comment
\* of the other domain and no comment of a user, whatever rejected value an
\* error comment quotes.
C40_CleanupConfined ==
  \A i \in 1..Len(pout.deleted) :
    pout.deleted[i].comment.domain = pout.deleted[i].by

\* the cleanup of the feature-branch domain deleted a release/backport
\* error comment that quotes a rejected release value
C40_Witness ==
  \E i \in 1..Len(pout.deleted) :
    /\ pout.deleted[i].by = "fb"
    /\ pout.deleted[i].comment.domain = "rb"
    /\ CommentIncludes(pout.deleted[i].comment, T_identifierRb)
    /\ CommentIncludes(pout.deleted[i].comment, Quoted(DQ, T_identifierFb))
====
